---- MODULE Spec2Model ----
(***************************************************************************)
(* Verification model of the mogiokoshi transcription pipeline:            *)
(*   - AudioProcessor.splitAudioBuffer      (src/src/utils/audioUtils.ts)  *)
(*   - Semaphore                            (src/src/utils/apiUtils.ts)    *)
(*   - GroqAPIClient.transcribeAudio / transcribeMultipleSegments          *)
(*   - the AudioProcessor component's startTranscription/stopTranscription *)
(*                                                                         *)
(* The specifications share the variables; each one drives one part and    *)
(* leaves the variables of the other parts at their initial values:        *)
(*   SplitSpec  the segmentation loop, one loop iteration per step         *)
(*   SemSpec    the Semaphore with a millisecond clock                     *)
(*   LiveSemSpec  SemSpec with weak fairness of the Semaphore's own steps  *)
(*   Spec       the runs of the component, one at a time: split, initial   *)
(*              wave, retry wave, merge, with the stop and reset buttons   *)
(*   LiveSpec   Spec with weak fairness of the run's own steps             *)
(*   MergeSpec  the final sort of transcribeMultipleSegments and           *)
(*              mergeTranscriptionResults, on lists of fragments           *)
(* Times of the segmenter are exact rationals: a time t seconds is held as *)
(* the integer t * sampleRate (a sample count).                            *)
(***************************************************************************)
EXTENDS Integers, Sequences, FiniteSets, TLC

VARIABLES
    \* ---- splitAudioBuffer
    sampleRate, bufLength, segmentDuration, overlap,
    currentPosition, segmentIndex, segments, splitPc,
    \* ---- Semaphore (SemSpec and Spec)
    width, permits, tasks,
    \* ---- Semaphore clock and callers (SemSpec)
    lastRequestTime, now, taskPc, wakeAt, stampedAt,
    \* ---- the component: processing.stage, the AbortController's signal,
    \*      how often onTranscriptionComplete / onError were called, the
    \*      argument of mergeTranscriptionResults
    stage, aborted, completeCalls, errorCalls, delivered,
    \* ---- one run of startTranscription / transcribeMultipleSegments
    runPc, total, results, errors, failedSegments,
    \* ---- the calls of the onProgress callback in the run: how many, and
    \*      the two arguments of the last one
    onProgress,
    \* ---- per segment: where its submission stands, the retryCount of the
    \*      submission, the retryCount of the transcribeAudio frame, and
    \*      history: fetch calls, submissions, a 401 seen, started after abort
    segPc, subRetry, attempt, netCalls, submissions, gotAuth, lateStarts,
    \* ---- mergeTranscriptionResults (MergeSpec): the list of fragments, the
    \*      TranscriptionResult returned, where the call stands, and whether
    \*      transcribeMultipleSegments' sort ran on the list first
    fragments, transcript, mergePc, sortedFirst,
    \* ---- AudioUploader and the page (UploadSpec): the uploader's error and
    \*      selectedFile, the page's selectedFile, how often onFileSelect was
    \*      called, and the file the last handler was given and by which path
    uploadError, selectedFile, pageSelectedFile, onFileSelectCalls, offeredFile, offeredVia,
    \* ---- one invocation of transcribeAudio (CallSpec): the frames of the
    \*      recursion (retryCount and the branch that made the inner call),
    \*      where the invocation stands, the fetches made, the last answer,
    \*      the last Math.random() * 1000 and the last wait (ms)
    frames, callPc, fetches, response, random, waitTime,
    \* ---- the runs of startTranscription of one component (RunsSpec): for
    \*      each, where it stands and the Semaphore and submissions of its
    \*      transcribeMultipleSegments call
    runs

splitVars == <<sampleRate, bufLength, segmentDuration, overlap,
               currentPosition, segmentIndex, segments, splitPc>>
semVars == <<width, permits, tasks>>
clockVars == <<lastRequestTime, now, taskPc, wakeAt, stampedAt>>
uiVars == <<stage, aborted, completeCalls, errorCalls, delivered>>
runVars == <<runPc, total, results, errors, failedSegments>>
segVars == <<segPc, subRetry, attempt, netCalls, submissions, gotAuth, lateStarts>>
pipeVars == <<uiVars, runVars, segVars, onProgress>>
mergeVars == <<fragments, transcript, mergePc, sortedFirst>>
uploadVars == <<uploadError, selectedFile, pageSelectedFile, onFileSelectCalls, offeredFile, offeredVia>>
callVars == <<frames, callPc, fetches, response, random, waitTime>>
runsVars == <<runs>>
vars == <<splitVars, semVars, clockVars, pipeVars, mergeVars, uploadVars, callVars, runsVars>>
notSplitVars == <<semVars, clockVars, pipeVars, mergeVars, uploadVars, callVars, runsVars>>
notSemVars == <<splitVars, pipeVars, mergeVars, uploadVars, callVars, runsVars>>
notMergeVars == <<splitVars, semVars, clockVars, pipeVars, uploadVars, callVars, runsVars>>
notUploadVars == <<splitVars, semVars, clockVars, pipeVars, mergeVars, callVars, runsVars>>
notCallVars == <<splitVars, semVars, clockVars, pipeVars, mergeVars, uploadVars, runsVars>>
notRunsVars == <<splitVars, clockVars, runVars, segVars, onProgress, mergeVars, uploadVars, callVars>>

\* ------------------------------------------------------------------ bounds
MaxRate == 2          \* sample rates 1..MaxRate (Hz)
MaxLength == 8        \* waveform lengths 0..MaxLength (samples)
MaxSegDur == 3        \* segmentDuration 1..MaxSegDur (whole seconds)
MaxOverlap == 3       \* overlap 0..MaxOverlap (whole seconds)
MaxSegments == 10     \* cap on emitted segments (only a non-advancing loop meets it)
MaxWidth == 2         \* Semaphore widths 1..MaxWidth
NumTasks == 3         \* callers of acquire in SemSpec
TimeStep == 1000      \* the clock advances in steps of TimeStep ms
MaxTime == 9000       \* the clock stops advancing at MaxTime ms
MaxSegs == 2          \* a run has 0..MaxSegs segments
MaxFragIndex == 2     \* fragments carry segment indices 0..MaxFragIndex
FragStep == 2         \* start times of consecutive segments differ by FragStep
MaxFragOverlap == 2   \* segments overlap by 0..MaxFragOverlap time units
SizeMargin == 1       \* file sizes MAX_FILE_SIZE - SizeMargin .. MAX_FILE_SIZE + SizeMargin
MaxSelections == 2    \* onFileSelect is followed for MaxSelections calls
NumJitters == 2       \* Math.random() * 1000 takes NumJitters + 1 values of 0..999
MaxSuggested == 3     \* suggested waits 2^k s - 300 ms, k in 0..MaxSuggested
MaxRuns == 2          \* presses of the start button followed by RunsSpec

\* the null of a File | null state, as a record comparable with Files
NoFile == [size |-> 0 - 1, type |-> "null", name |-> "null"]

\* no answer yet
NoResponse == [kind |-> "none", waitTimeMatch |-> <<>>]

Min(a, b) == IF a < b THEN a ELSE b

\* ======================================================== splitAudioBuffer
\* Math.floor(segmentDuration * sampleRate): options are whole seconds (the
\* component offers 30/60/90/120 with overlap 1), so the product is integral.
segmentSamples == segmentDuration * sampleRate
overlapSamples == overlap * sampleRate
\* (stepSamplesOverlapAdded: the overlap added to the step, not taken off it)
stepSamplesOverlapAdded == segmentSamples + overlapSamples
stepSamples == segmentSamples - overlapSamples

SplitInit ==
    /\ \/ /\ sampleRate \in 1..MaxRate
          /\ bufLength \in 0..MaxLength
          /\ segmentDuration \in 1..MaxSegDur
          /\ overlap \in 0..MaxOverlap
       \/ /\ sampleRate = 1 /\ bufLength = 130
          /\ segmentDuration = 60 /\ overlap = 1
    /\ currentPosition = 0
    /\ segmentIndex = 0
    /\ segments = <<>>
    /\ splitPc = "loop"
    \* the Semaphore is not used by the segmenter
    /\ width = 1 /\ permits = 1 /\ tasks = <<>>
    /\ lastRequestTime = 0 /\ now = 0
    /\ taskPc = <<>> /\ wakeAt = <<>> /\ stampedAt = <<>>
    \* no pipeline run
    /\ stage = "idle" /\ aborted = FALSE /\ completeCalls = 0 /\ errorCalls = 0
    /\ delivered = <<>>
    /\ runPc = "none" /\ total = 0 /\ results = <<>> /\ errors = <<>>
    /\ failedSegments = <<>>
    /\ onProgress = [calls |-> 0, completed |-> 0, total |-> 0]
    /\ segPc = <<>> /\ subRetry = <<>> /\ attempt = <<>> /\ netCalls = <<>>
    /\ submissions = <<>> /\ gotAuth = <<>> /\ lateStarts = {}
    \* nothing is merged
    /\ fragments = <<>> /\ transcript = <<>> /\ mergePc = "none"
    /\ sortedFirst = FALSE
    \* no file is offered to the uploader
    /\ uploadError = "null" /\ selectedFile = NoFile /\ pageSelectedFile = NoFile
    /\ onFileSelectCalls = 0 /\ offeredFile = NoFile /\ offeredVia = "none"
    \* transcribeAudio is not called on its own
    /\ frames = <<>> /\ callPc = "none" /\ fetches = 0
    /\ response = NoResponse /\ random = 0 /\ waitTime = 0
    \* the runs of the component are not told apart
    /\ runs = <<>>

\* Math.min(currentPosition + segmentSamples, audioBuffer.length)
\* (EndSampleClampDropped: the window end without the clamp)
EndSampleClampDropped(pos) == pos + segmentSamples
EndSample(pos) == Min(pos + segmentSamples, bufLength)

\* actualDuration < 1, i.e. (endSample - startSample) / sampleRate < 1
\* (TooShortInclusive: the test written <= 1)
TooShortInclusive(startSample, endSample) == (endSample - startSample) <= sampleRate
TooShort(startSample, endSample) == (endSample - startSample) < sampleRate

\* The object pushed onto segments.
NewSegment(startSample, endSample) ==
    [ index     |-> segmentIndex,
      startTime |-> startSample,
      endTime   |-> endSample,
      duration  |-> endSample - startSample ]

\* while (currentPosition < audioBuffer.length) is false: return segments
SplitReturn ==
    /\ splitPc = "loop"
    /\ ~(currentPosition < bufLength)
    /\ splitPc' = "done"
    /\ UNCHANGED <<sampleRate, bufLength, segmentDuration, overlap,
                   currentPosition, segmentIndex, segments>>
    /\ UNCHANGED notSplitVars

\* if (actualDuration < 1) break
SplitBreak ==
    /\ splitPc = "loop"
    /\ currentPosition < bufLength
    /\ TooShort(currentPosition, EndSample(currentPosition))
    /\ splitPc' = "done"
    /\ UNCHANGED <<sampleRate, bufLength, segmentDuration, overlap,
                   currentPosition, segmentIndex, segments>>
    /\ UNCHANGED notSplitVars

\* One iteration of the loop body that emits a segment and advances.
SplitEmit ==
    /\ splitPc = "loop"
    /\ currentPosition < bufLength
    /\ ~TooShort(currentPosition, EndSample(currentPosition))
    /\ segmentIndex < MaxSegments
    /\ segments' = Append(segments,
                          NewSegment(currentPosition, EndSample(currentPosition)))
    /\ currentPosition' = currentPosition + stepSamples
    /\ segmentIndex' = segmentIndex + 1
    /\ UNCHANGED <<sampleRate, bufLength, segmentDuration, overlap, splitPc>>
    /\ UNCHANGED notSplitVars

SplitNext ==
    \/ SplitReturn
    \/ SplitBreak
    \/ SplitEmit

SplitSpec == SplitInit /\ [][SplitNext]_vars

\* ------------------------------------------------ claims on the segmenter
\* The options are valid: 0 <= overlap < segmentDuration.
ValidOptions == 0 <= overlap /\ overlap < segmentDuration

\* The window does not advance: overlap >= segmentDuration.
NonAdvancing == stepSamples <= 0

\* C8: called with overlap >= segmentDuration on a waveform of at least one
\* second, the split fails fast with a configuration error: it emits no
\* segment at all (and so no unbounded sequence of segments).
C8_FailsFast ==
    (NonAdvancing /\ bufLength >= sampleRate) => segments = <<>>

\* C8 (what the code does): with a non-advancing window the loop emits one
\* segment per iteration for as long as it is allowed to run.
C8_LoopsWitness ==
    /\ NonAdvancing /\ bufLength >= sampleRate
    /\ splitPc = "loop"
    /\ Len(segments) = MaxSegments

\* C9: for valid options the returned segments start at 0, consecutive
\* starts differ by exactly segmentDuration - overlap, every segment but the
\* last has duration exactly segmentDuration, the last has the full duration
\* or the exact remainder L - start; and L = 130 s, segmentDuration = 60,
\* overlap = 1 gives starts [0, 59, 118] with the last end 130, duration 12.
C9_StepAndDurations ==
    (splitPc = "done" /\ ValidOptions) =>
        LET n == Len(segments) IN
        /\ n > 0 => segments[1].startTime = 0
        /\ \A k \in 1..(n - 1) :
              /\ segments[k + 1].startTime - segments[k].startTime
                     = (segmentDuration - overlap) * sampleRate
              /\ segments[k].duration = segmentDuration * sampleRate
        /\ n > 0 =>
              \/ segments[n].duration = segmentDuration * sampleRate
              \/ segments[n].duration = bufLength - segments[n].startTime
        /\ (bufLength = 130 * sampleRate /\ segmentDuration = 60 /\ overlap = 1) =>
              /\ n = 3
              /\ [k \in 1..n |-> segments[k].startTime]
                     = <<0, 59 * sampleRate, 118 * sampleRate>>
              /\ segments[n].endTime = 130 * sampleRate
              /\ segments[n].duration = 12 * sampleRate

\* C9 (the spec's example): 130 s at 60/1 is split into starts [0, 59, 118].
C9_ExampleReached ==
    /\ splitPc = "done"
    /\ bufLength = 130 /\ segmentDuration = 60 /\ overlap = 1
    /\ [k \in 1..Len(segments) |-> segments[k].startTime] = <<0, 59, 118>>
    /\ segments[3].endTime = 130 /\ segments[3].duration = 12

\* C10: in every returned sequence each segment has endTime > startTime,
\* duration = endTime - startTime, endTime <= waveform length, and the index
\* values are 0, 1, ..., n-1 in emission order.
C10_SegmentInvariant ==
    splitPc = "done" =>
        \A k \in 1..Len(segments) :
            /\ segments[k].endTime > segments[k].startTime
            /\ segments[k].duration = segments[k].endTime - segments[k].startTime
            /\ segments[k].endTime <= bufLength
            /\ segments[k].index = k - 1

\* C10: a returned sequence of at least three segments whose last one is
\* clamped to the end of the waveform.
C10_Witness ==
    /\ splitPc = "done"
    /\ Len(segments) >= 3
    /\ segments[Len(segments)].endTime = bufLength
    /\ segments[Len(segments)].duration < segmentSamples


\* C11: a window is emitted if and only if its clamped duration is >= 1 s:
\* every emitted segment lasts at least 1 s, the split ends before the end of
\* the waveform only on a window shorter than 1 s (a remainder of exactly
\* 1 s is kept), and a waveform shorter than 1 s gives no segment.
C11_EmittedIffAtLeastOneSecond ==
    /\ \A k \in 1..Len(segments) : segments[k].duration >= sampleRate
    /\ (splitPc = "done" /\ currentPosition < bufLength) =>
           bufLength - currentPosition < sampleRate
    /\ (splitPc = "done" /\ bufLength < sampleRate) => segments = <<>>

\* C11: the split returned with a last segment that is the remainder of
\* exactly 1 s of a longer window.
C11_Witness ==
    /\ splitPc = "done"
    /\ Len(segments) >= 2
    /\ segmentSamples > sampleRate
    /\ segments[Len(segments)].duration = sampleRate
    /\ segments[Len(segments)].endTime = bufLength

\* C12: for valid options the emitted ranges [startTime, endTime) form one
\* gap-free interval from 0 (each segment starts no later than the one
\* before it ends), and what no segment covers is one tail shorter than 1 s.
C12_GapFreeCoverage ==
    (splitPc = "done" /\ ValidOptions) =>
        LET n == Len(segments) IN
        /\ n = 0 => bufLength < sampleRate
        /\ n > 0 =>
              /\ segments[1].startTime = 0
              /\ \A k \in 1..(n - 1) :
                    /\ segments[k + 1].startTime <= segments[k].endTime
                    /\ segments[k + 1].endTime >= segments[k].endTime
              /\ bufLength - segments[n].endTime >= 0
              /\ bufLength - segments[n].endTime < sampleRate

\* C12: a split of overlapping windows that returned several segments, and
\* one (without overlap) that left a tail of less than 1 s uncovered.
C12_Witness ==
    /\ splitPc = "done" /\ ValidOptions
    /\ Len(segments) >= 2
    /\ \/ overlap > 0 /\ segments[2].startTime < segments[1].endTime
       \/ segments[Len(segments)].endTime < bufLength

\* C39: for valid options every segment after the first ends strictly later
\* than the segment before it: it holds a sample the one before does not.
C39_EachSegmentAddsSamples ==
    ValidOptions =>
        \A k \in 1..(Len(segments) - 1) :
            segments[k + 1].endTime > segments[k].endTime

\* C39 (what the code does): a segment ended at the end of the waveform and
\* the loop went on to return another, shorter one ending there too.
C39_CodeWitness ==
    /\ splitPc = "done" /\ ValidOptions
    /\ \E k \in 1..(Len(segments) - 1) :
          /\ segments[k].endTime = bufLength
          /\ segments[k + 1].endTime = bufLength
          /\ segments[k + 1].startTime > segments[k].startTime
          /\ segments[k + 1].duration < segments[k].duration

\* =============================================================== Semaphore
\* private readonly minInterval: number = 3000
minInterval == 3000

Tasks == 1..NumTasks

\* The part of acquire that takes a slot or queues the caller. The result
\* names the new permits, the new queue and the wrapped tasks run at once.
\* (AcquireNoDecrement: the slot is taken without permits--)
AcquireNoDecrement(p, q, t) ==
    IF p > 0
    THEN [permits |-> p, tasks |-> q, started |-> <<t>>]
    ELSE [permits |-> p, tasks |-> Append(q, t), started |-> <<>>]
AcquireSlot(p, q, t) ==
    IF p > 0
    THEN [permits |-> p - 1, tasks |-> q, started |-> <<t>>]
    ELSE [permits |-> p, tasks |-> Append(q, t), started |-> <<>>]

\* release(): permits++, and a queued caller takes the slot back at once.
\* (ReleaseNoRetake: without the permits-- of the hand-over;
\*  ReleaseNoWake: without the hand-over to the queue;
\*  ReleaseLastQueued: tasks.pop() in the place of tasks.shift();
\*  ReleaseNoShift: tasks[0] in the place of tasks.shift())
ReleaseNoShift(p, q) ==
    IF Len(q) > 0
    THEN [permits |-> (p + 1) - 1, tasks |-> q, started |-> <<Head(q)>>]
    ELSE [permits |-> p + 1, tasks |-> q, started |-> <<>>]
ReleaseLastQueued(p, q) ==
    IF Len(q) > 0
    THEN [permits |-> (p + 1) - 1, tasks |-> SubSeq(q, 1, Len(q) - 1),
          started |-> <<q[Len(q)]>>]
    ELSE [permits |-> p + 1, tasks |-> q, started |-> <<>>]
ReleaseNoWake(p, q) ==
    [permits |-> p + 1, tasks |-> q, started |-> <<>>]
ReleaseNoRetake(p, q) ==
    IF Len(q) > 0
    THEN [permits |-> p + 1, tasks |-> Tail(q), started |-> <<Head(q)>>]
    ELSE [permits |-> p + 1, tasks |-> q, started |-> <<>>]
ReleaseSlot(p, q) ==
    IF Len(q) > 0
    THEN [permits |-> (p + 1) - 1, tasks |-> Tail(q), started |-> <<Head(q)>>]
    ELSE [permits |-> p + 1, tasks |-> q, started |-> <<>>]

\* The head of wrappedTask, run for each task in started, at clock value now:
\* a task less than minInterval after lastRequestTime waits for the rest of
\* the interval; any other stamps lastRequestTime and calls task().
\* pcs, wakes, stamps are the callers' fields before, last is lastRequestTime.
RECURSIVE RunWrapped(_, _, _, _, _)
RunWrapped(started, pcs, wakes, stamps, last) ==
    IF started = <<>>
    THEN [pc |-> pcs, wake |-> wakes, stamp |-> stamps, last |-> last]
    ELSE LET t == Head(started)
             timeSinceLastRequest == now - last
         IN IF timeSinceLastRequest < minInterval
            THEN RunWrapped(Tail(started),
                            [pcs EXCEPT ![t] = "delay"],
                            [wakes EXCEPT ![t] = now + (minInterval - timeSinceLastRequest)],
                            stamps, last)
            ELSE RunWrapped(Tail(started),
                            [pcs EXCEPT ![t] = "running"],
                            wakes,
                            [stamps EXCEPT ![t] = now], now)

SemInit ==
    /\ width \in 1..MaxWidth
    /\ permits = width
    /\ tasks = <<>>
    /\ lastRequestTime = 0
    \* Date.now() is far beyond minInterval when the Semaphore is built
    /\ now = minInterval
    /\ taskPc = [t \in Tasks |-> "idle"]
    /\ wakeAt = [t \in Tasks |-> 0]
    /\ stampedAt = [t \in Tasks |-> 0]
    \* the segmenter is not used by the Semaphore
    /\ sampleRate = 1 /\ bufLength = 0 /\ segmentDuration = 1 /\ overlap = 0
    /\ currentPosition = 0 /\ segmentIndex = 0 /\ segments = <<>>
    /\ splitPc = "done"
    \* no pipeline run
    /\ stage = "idle" /\ aborted = FALSE /\ completeCalls = 0 /\ errorCalls = 0
    /\ delivered = <<>>
    /\ runPc = "none" /\ total = 0 /\ results = <<>> /\ errors = <<>>
    /\ failedSegments = <<>>
    /\ onProgress = [calls |-> 0, completed |-> 0, total |-> 0]
    /\ segPc = <<>> /\ subRetry = <<>> /\ attempt = <<>> /\ netCalls = <<>>
    /\ submissions = <<>> /\ gotAuth = <<>> /\ lateStarts = {}
    \* nothing is merged
    /\ fragments = <<>> /\ transcript = <<>> /\ mergePc = "none"
    /\ sortedFirst = FALSE
    \* no file is offered to the uploader
    /\ uploadError = "null" /\ selectedFile = NoFile /\ pageSelectedFile = NoFile
    /\ onFileSelectCalls = 0 /\ offeredFile = NoFile /\ offeredVia = "none"
    \* transcribeAudio is not called on its own
    /\ frames = <<>> /\ callPc = "none" /\ fetches = 0
    /\ response = NoResponse /\ random = 0 /\ waitTime = 0
    \* the runs of the component are not told apart
    /\ runs = <<>>

\* acquire(task) by caller t
SemAcquire(t) ==
    /\ taskPc[t] = "idle"
    /\ LET a == AcquireSlot(permits, tasks, t)
           r == RunWrapped(a.started,
                           [taskPc EXCEPT ![t] = "queued"],
                           wakeAt, stampedAt, lastRequestTime)
       IN /\ permits' = a.permits
          /\ tasks' = a.tasks
          /\ taskPc' = r.pc
          /\ wakeAt' = r.wake
          /\ stampedAt' = r.stamp
          /\ lastRequestTime' = r.last
    /\ UNCHANGED <<width, now>>
    /\ UNCHANGED notSemVars

\* The setTimeout of the spacing wait fires (no earlier than asked for):
\* this.lastRequestTime = Date.now(), then task() is called.
SemDelayElapsed(t) ==
    /\ taskPc[t] = "delay"
    /\ now >= wakeAt[t]
    /\ lastRequestTime' = now
    /\ stampedAt' = [stampedAt EXCEPT ![t] = now]
    /\ taskPc' = [taskPc EXCEPT ![t] = "running"]
    /\ UNCHANGED <<width, permits, tasks, now, wakeAt>>
    /\ UNCHANGED notSemVars

\* task() of caller t settles (outcome "resolved" or "rejected"): release()
\* runs, and with it the head of wrappedTask of the caller it wakes.
SemTaskSettles(t, outcome) ==
    /\ taskPc[t] = "running"
    /\ LET a == ReleaseSlot(permits, tasks)
           r == RunWrapped(a.started,
                           [taskPc EXCEPT ![t] = outcome],
                           wakeAt, stampedAt, lastRequestTime)
       IN /\ permits' = a.permits
          /\ tasks' = a.tasks
          /\ taskPc' = r.pc
          /\ wakeAt' = r.wake
          /\ stampedAt' = r.stamp
          /\ lastRequestTime' = r.last
    /\ UNCHANGED <<width, now>>
    /\ UNCHANGED notSemVars

\* Time passes.
SemTick ==
    /\ now + TimeStep <= MaxTime
    /\ now' = now + TimeStep
    /\ UNCHANGED <<width, permits, tasks, lastRequestTime, taskPc, wakeAt, stampedAt>>
    /\ UNCHANGED notSemVars

SemNext ==
    \/ \E t \in Tasks : SemAcquire(t)
    \/ \E t \in Tasks : SemDelayElapsed(t)
    \/ \E t \in Tasks : SemTaskSettles(t, "resolved")
    \/ \E t \in Tasks : SemTaskSettles(t, "rejected")
    \/ SemTick

SemSpec == SemInit /\ [][SemNext]_vars

\* Time passes beyond MaxTime while a spacing wait is pending: the clock
\* moves to the earliest pending timer.
SemWaitOut ==
    /\ now + TimeStep > MaxTime
    /\ \E t \in Tasks :
          /\ taskPc[t] = "delay" /\ wakeAt[t] > now
          /\ \A u \in Tasks : (taskPc[u] = "delay") => wakeAt[t] <= wakeAt[u]
          /\ now' = wakeAt[t]
    /\ UNCHANGED <<width, permits, tasks, lastRequestTime, taskPc, wakeAt, stampedAt>>
    /\ UNCHANGED notSemVars

\* every step of the Semaphore but a new call of acquire
SemProgress ==
    \/ \E t \in Tasks : SemDelayElapsed(t)
    \/ \E t \in Tasks : SemTaskSettles(t, "resolved")
    \/ \E t \in Tasks : SemTaskSettles(t, "rejected")
    \/ SemTick
    \/ SemWaitOut

LiveSemNext ==
    \/ \E t \in Tasks : SemAcquire(t)
    \/ SemProgress

\* Timers fire, the clock moves on and every task() settles; no caller is
\* obliged to call acquire.
LiveSemSpec == SemInit /\ [][LiveSemNext]_vars /\ WF_vars(SemProgress)

\* ------------------------------------------------ claims on the Semaphore
\* The callers admitted: wrappedTask started and release() not yet run.
Admitted == {t \in Tasks : taskPc[t] \in {"delay", "running"}}

\* The callers that passed the spacing gate (lastRequestTime stamped, task() started).
Stamped == {t \in Tasks : taskPc[t] \in {"running", "resolved", "rejected"}}

\* C1: with W permits and N >= W acquire calls, under every interleaving of
\* arrivals and completions, at no instant are more than W tasks admitted.
C1_AtMostWidthAdmitted ==
    Cardinality(Admitted) <= width

\* C1: all W slots are taken, a caller is queued behind them, and a task
\* has already failed and released its slot.
C1_Witness ==
    /\ Cardinality(Admitted) = width
    /\ tasks # <<>>
    /\ \E t \in Tasks : taskPc[t] = "rejected"

\* C2: any two tasks admitted by the same Semaphore pass the spacing gate at
\* instants at least minInterval apart.
C2_SpacingBetweenAnyTwo ==
    \A t, u \in Stamped :
        t # u =>
            \/ stampedAt[t] - stampedAt[u] >= minInterval
            \/ stampedAt[u] - stampedAt[t] >= minInterval



\* C18: queued callers are admitted in the order they arrived: a caller
\* that finds no free slot joins the tail of the queue, only the head of
\* the queue is ever admitted from it, and a caller is admitted on arrival
\* only when nobody is queued.
C18_QueueServedFifo ==
    [][ /\ \/ tasks' = tasks
           \/ tasks # <<>> /\ tasks' = Tail(tasks)
           \/ \E t \in Tasks : tasks' = Append(tasks, t)
        /\ \A t \in Tasks :
              /\ (taskPc[t] = "idle" /\ taskPc'[t] = "queued") =>
                    tasks' = Append(tasks, t)
              /\ (taskPc[t] = "idle" /\ taskPc'[t] \in {"delay", "running"}) =>
                    tasks = <<>> /\ tasks' = <<>>
              /\ (taskPc[t] = "queued" /\ taskPc'[t] # "queued") =>
                    /\ taskPc'[t] \in {"delay", "running"}
                    /\ t = Head(tasks)
                    /\ tasks' = Tail(tasks)
      ]_vars

\* C18: with one slot, a task has settled, its slot went to the head of the
\* queue, and a caller that arrived later is still queued.
C18_Witness ==
    /\ width = 1
    /\ \E t \in Tasks : taskPc[t] \in {"resolved", "rejected"}
    /\ \E t \in Tasks : taskPc[t] \in {"delay", "running"} /\ stampedAt[t] = 0
    /\ Len(tasks) >= 1

\* the callers whose acquire(task) has not settled yet
Pending == {t \in Tasks : taskPc[t] \in {"queued", "delay", "running"}}

\* C19: every admitted task gives its slot back exactly once when it
\* settles, resolved or rejected (free permits plus admitted tasks always
\* make the width), and the slot goes to the head of the queue; so every
\* acquire call is eventually admitted and its promise eventually settles:
\* a settled call stays settled, hence again and again no call is pending.
C19_EveryAcquireSettles ==
    /\ [](permits + Cardinality(Admitted) = width)
    /\ []<>(Pending = {})

\* C19: every caller has settled, some resolved and some rejected, and all
\* the permits are back.
C19_Witness ==
    /\ \A t \in Tasks : taskPc[t] \in {"resolved", "rejected"}
    /\ \E t \in Tasks : taskPc[t] = "resolved"
    /\ \E t \in Tasks : taskPc[t] = "rejected"
    /\ \E t \in Tasks : stampedAt[t] > MaxTime
    /\ permits = width
    /\ tasks = <<>>

\* C34: in every state of the Semaphore permits is not negative, the free
\* permits and the admitted tasks together make the width, and a caller is
\* queued only while no permit is free.
C34_PermitsAccountForSlots ==
    /\ permits >= 0
    /\ permits + Cardinality(Admitted) = width
    /\ tasks # <<>> => permits = 0
    /\ Len(tasks) = Cardinality({t \in Tasks : taskPc[t] = "queued"})

\* C34: after a task settled and its slot was handed over, every slot is
\* taken again and a caller is still queued.
C34_Witness ==
    /\ \E t \in Tasks : taskPc[t] \in {"resolved", "rejected"}
    /\ Cardinality(Admitted) = width
    /\ permits = 0
    /\ tasks # <<>>

\* ======================================= transcribeAudio (single call policy)
\* const maxRetries = 3
maxRetries == 3

\* The answers of one fetch: 2xx, 401, 429, any other failure (another
\* non-2xx status such as 413 or 500, a network error, an unreadable body).
Responses == {"ok", "auth", "rate", "transient"}

\* What one frame transcribeAudio(blob, options, retryCount) does with the
\* answer of its fetch: "return" the result, "retry" (wait, then the
\* recursive call with retryCount + 1), or "throw" to its caller.
\*   429 and retryCount < maxRetries: retry (the if inside !response.ok);
\*   401 throws the 'APIキーが無効' error, any other failure throws too; the
\*   catch retries when retryCount < maxRetries and the message is not that one.
CallOutcomeAuthRetried(kind, retryCount) ==
    IF kind = "ok" THEN "return"
    ELSE IF retryCount < maxRetries THEN "retry"
    ELSE "throw"
CallOutcome(kind, retryCount) ==
    IF kind = "ok" THEN "return"
    ELSE IF kind = "rate" /\ retryCount < maxRetries THEN "retry"
    ELSE IF retryCount < maxRetries /\ kind # "auth" THEN "retry"
    ELSE "throw"

\* ================================================ transcribeMultipleSegments
\* Segment k of the code (index k, 0-based) is segment k + 1 here.
Segs == 1..MaxSegs

\* if (retryCount < 2 && !errorMessage.includes('APIキーが無効'))
segmentRetryLimit == 2
\* (RetryableWithAuth: without the test of the 401 message)
RetryableWithAuth(retryCount, auth) == retryCount < segmentRetryLimit
Retryable(retryCount, auth) == retryCount < segmentRetryLimit /\ ~auth

\* errors.filter(e => e.retryCount >= 2 || e.error.includes('APIキーが無効'))
finalErrors ==
    SelectSeq(errors, LAMBDA e : e.retryCount >= segmentRetryLimit \/ e.auth)

\* await Promise.allSettled(promises): fulfilled whatever the promises did.
\* (AwaitAllOrReject: Promise.all, which rejects when one of them rejected)
AwaitAllOrReject(anyRejected) == IF anyRejected THEN "rejected" ELSE "fulfilled"
AwaitAllSettled(anyRejected) == "fulfilled"

\* results.sort((a, b) => a.index - b.index)
\* (SortByIndexSkipped: the list is returned in completion order)
SortByIndexSkipped(seq) == seq
RECURSIVE SortByIndex(_)
SortByIndex(seq) ==
    IF seq = <<>> THEN <<>>
    ELSE LET m == CHOOSE x \in {seq[k] : k \in 1..Len(seq)} :
                      \A y \in {seq[k] : k \in 1..Len(seq)} : x <= y
         IN <<m>> \o SortByIndex(SelectSeq(seq, LAMBDA x : x # m))

\* segments.map(segment => processSegment(segment, retryCount)): each call
\* goes through semaphore.acquire in list order; a caller that gets a slot has
\* its wrappedTask started ("gate": the spacing check and wait), the others
\* are queued. st = [permits, tasks, pc, sub, count].
RECURSIVE SubmitAll(_, _)
SubmitAll(list, st) ==
    IF list = <<>> THEN st
    ELSE LET s == Head(list)
             a == AcquireSlot(st.permits, st.tasks, s.index)
         IN SubmitAll(Tail(list),
                [ permits |-> a.permits,
                  tasks   |-> a.tasks,
                  pc      |-> [st.pc EXCEPT ![s.index] =
                                  IF a.started = <<>> THEN "queued" ELSE "gate"],
                  sub     |-> [st.sub EXCEPT ![s.index] = s.retryCount],
                  count   |-> [st.count EXCEPT ![s.index] = @ + 1] ])

\* The segments whose wrappedTask is started by a step from pc to newPc.
Started(pc, newPc) == {i \in Segs : pc[i] # "gate" /\ newPc[i] = "gate"}

Settled(i) == segPc[i] \in {"resolved", "rejected"}

\* ========================================================== the component
Init ==
    /\ stage = "idle" /\ aborted = FALSE /\ completeCalls = 0 /\ errorCalls = 0
    /\ delivered = <<>>
    /\ runPc = "none" /\ total = 0 /\ results = <<>> /\ errors = <<>>
    /\ failedSegments = <<>>
    /\ onProgress = [calls |-> 0, completed |-> 0, total |-> 0]
    /\ segPc = [i \in Segs |-> "none"]
    /\ subRetry = [i \in Segs |-> 0]
    /\ attempt = [i \in Segs |-> 0]
    /\ netCalls = [i \in Segs |-> 0]
    /\ submissions = [i \in Segs |-> 0]
    /\ gotAuth = [i \in Segs |-> FALSE]
    /\ lateStarts = {}
    /\ width \in 1..MaxWidth
    /\ permits = width /\ tasks = <<>>
    \* the Semaphore's clock and the segmenter's loop are not followed here
    /\ lastRequestTime = 0 /\ now = 0
    /\ taskPc = <<>> /\ wakeAt = <<>> /\ stampedAt = <<>>
    /\ sampleRate = 1 /\ bufLength = 0 /\ segmentDuration = 1 /\ overlap = 0
    /\ currentPosition = 0 /\ segmentIndex = 0 /\ segments = <<>>
    /\ splitPc = "done"
    \* nothing is merged
    /\ fragments = <<>> /\ transcript = <<>> /\ mergePc = "none"
    /\ sortedFirst = FALSE
    \* no file is offered to the uploader
    /\ uploadError = "null" /\ selectedFile = NoFile /\ pageSelectedFile = NoFile
    /\ onFileSelectCalls = 0 /\ offeredFile = NoFile /\ offeredVia = "none"
    \* transcribeAudio is not called on its own
    /\ frames = <<>> /\ callPc = "none" /\ fetches = 0
    /\ response = NoResponse /\ random = 0 /\ waitTime = 0
    \* the runs of the component are not told apart
    /\ runs = <<>>

notPipeVars == <<splitVars, clockVars, mergeVars, uploadVars, callVars, runsVars>>

\* The start button (shown while stage is idle): startTranscription up to its
\* first await, splitAudioFile. A press while an earlier run of this
\* component is still in flight is not followed by this specification.
StartTranscription ==
    /\ stage = "idle"
    /\ runPc \in {"none", "finished"}
    /\ stage' = "splitting"
    /\ aborted' = FALSE
    /\ runPc' = "splitting"
    /\ completeCalls' = 0 /\ errorCalls' = 0 /\ delivered' = <<>>
    /\ total' = 0 /\ results' = <<>> /\ errors' = <<>> /\ failedSegments' = <<>>
    /\ onProgress' = [calls |-> 0, completed |-> 0, total |-> 0]
    /\ segPc' = [i \in Segs |-> "none"]
    /\ subRetry' = [i \in Segs |-> 0]
    /\ attempt' = [i \in Segs |-> 0]
    /\ netCalls' = [i \in Segs |-> 0]
    /\ submissions' = [i \in Segs |-> 0]
    /\ gotAuth' = [i \in Segs |-> FALSE]
    /\ lateStarts' = {}
    /\ permits' = width /\ tasks' = <<>>
    /\ UNCHANGED width
    /\ UNCHANGED notPipeVars

\* (SplitFailsThenCompletes: the catch followed by onTranscriptionComplete)
SplitFailsThenCompletes ==
    /\ runPc = "splitting"
    /\ stage' = "error"
    /\ errorCalls' = errorCalls + 1
    /\ completeCalls' = completeCalls + 1
    /\ runPc' = "finished"
    /\ UNCHANGED <<aborted, delivered>>
    /\ UNCHANGED <<total, results, errors, failedSegments>>
    /\ UNCHANGED segVars
    /\ UNCHANGED semVars
    /\ UNCHANGED onProgress
    /\ UNCHANGED notPipeVars

\* (SplitEmptyAccepted: no test of segments.length === 0, the run goes on
\*  with no segment)
SplitEmptyAccepted ==
    /\ runPc = "splitting"
    /\ stage' = "transcribing"
    /\ total' = 0
    /\ runPc' = "wave1"
    /\ UNCHANGED <<aborted, completeCalls, errorCalls, delivered>>
    /\ UNCHANGED <<results, errors, failedSegments>>
    /\ UNCHANGED segVars
    /\ UNCHANGED semVars
    /\ UNCHANGED onProgress
    /\ UNCHANGED notPipeVars

\* The catch of startTranscription: stage error, onError(errorMessage).
\* splitAudioFile rejected (decode failure) or returned no segment.
SplitFails ==
    /\ runPc = "splitting"
    /\ stage' = "error"
    /\ errorCalls' = errorCalls + 1
    /\ runPc' = "finished"
    /\ UNCHANGED <<aborted, completeCalls, delivered>>
    /\ UNCHANGED <<total, results, errors, failedSegments>>
    /\ UNCHANGED segVars
    /\ UNCHANGED semVars
    /\ UNCHANGED onProgress
    /\ UNCHANGED notPipeVars

\* splitAudioFile returned n >= 1 segments: stage transcribing (a functional
\* update, whatever the stage was), then transcribeMultipleSegments up to its
\* first await: a new Semaphore(concurrency) and processSegment(segment) for
\* every segment in index order.
SplitSucceeds(n) ==
    /\ runPc = "splitting"
    /\ n >= 1
    /\ LET st == SubmitAll([k \in 1..n |-> [index |-> k, retryCount |-> 0]],
                           [permits |-> width, tasks |-> <<>>, pc |-> segPc,
                            sub |-> subRetry, count |-> submissions])
       IN /\ permits' = st.permits
          /\ tasks' = st.tasks
          /\ segPc' = st.pc
          /\ subRetry' = st.sub
          /\ submissions' = st.count
          /\ lateStarts' = IF aborted THEN lateStarts \cup Started(segPc, st.pc)
                           ELSE lateStarts
    /\ stage' = "transcribing"
    /\ total' = n
    /\ runPc' = "wave1"
    /\ UNCHANGED <<aborted, completeCalls, errorCalls, delivered>>
    /\ UNCHANGED <<results, errors, failedSegments>>
    /\ UNCHANGED <<attempt, netCalls, gotAuth>>
    /\ UNCHANGED width
    /\ UNCHANGED onProgress
    /\ UNCHANGED notPipeVars

\* The spacing gate of wrappedTask is passed: task() runs, which calls
\* transcribeAudio(segment.blob, options, retryCount) and issues its fetch.
GatePassed(i) ==
    /\ segPc[i] = "gate"
    /\ segPc' = [segPc EXCEPT ![i] = "calling"]
    /\ attempt' = [attempt EXCEPT ![i] = subRetry[i]]
    /\ netCalls' = [netCalls EXCEPT ![i] = @ + 1]
    /\ UNCHANGED <<subRetry, submissions, gotAuth, lateStarts>>
    /\ UNCHANGED uiVars
    /\ UNCHANGED runVars
    /\ UNCHANGED semVars
    /\ UNCHANGED onProgress
    /\ UNCHANGED notPipeVars

\* release() after task() of segment i settled with newPc, and the start of
\* the wrappedTask it wakes.
ReleaseAfter(i, newPc) ==
    LET a == ReleaseSlot(permits, tasks)
        pc1 == [segPc EXCEPT ![i] = newPc]
        pc2 == IF a.started = <<>> THEN pc1
               ELSE [pc1 EXCEPT ![Head(a.started)] = "gate"]
    IN /\ permits' = a.permits
       /\ tasks' = a.tasks
       /\ segPc' = pc2
       /\ lateStarts' = IF aborted THEN lateStarts \cup Started(segPc, pc2)
                        ELSE lateStarts

\* if (onProgress) onProgress(completed, total): one more call
OnProgressCalled(completed, segmentsLength) ==
    [calls |-> onProgress.calls + 1, completed |-> completed,
     total |-> segmentsLength]

\* The fetch of segment i is answered with kind.
Response(i, kind) ==
    /\ segPc[i] = "calling"
    /\ gotAuth' = [gotAuth EXCEPT ![i] = @ \/ kind = "auth"]
    /\ LET outcome == CallOutcome(kind, attempt[i]) IN
       CASE outcome = "return" ->
              \* try of processSegment: results.push, onProgress; then release()
              /\ results' = Append(results, i)
              /\ onProgress' = OnProgressCalled(Len(results') + Len(errors), total)
              /\ ReleaseAfter(i, "resolved")
              /\ UNCHANGED <<errors, failedSegments>>
         [] outcome = "retry" ->
              \* await new Promise(resolve => setTimeout(resolve, waitTime))
              /\ segPc' = [segPc EXCEPT ![i] = "backoff"]
              /\ UNCHANGED <<results, errors, failedSegments, onProgress>>
              /\ UNCHANGED <<permits, tasks, lateStarts>>
         [] outcome = "throw" ->
              \* catch of processSegment: errors.push, failedSegments.push when
              \* retryable, onProgress, throw; then release()
              /\ errors' = Append(errors, [index |-> i, retryCount |-> subRetry[i],
                                           auth |-> kind = "auth"])
              /\ failedSegments' =
                     IF Retryable(subRetry[i], kind = "auth")
                     THEN Append(failedSegments,
                                 [index |-> i, retryCount |-> subRetry[i] + 1])
                     ELSE failedSegments
              /\ onProgress' = OnProgressCalled(Len(results) + Len(errors'), total)
              /\ ReleaseAfter(i, "rejected")
              /\ UNCHANGED results
    /\ UNCHANGED <<subRetry, attempt, netCalls, submissions>>
    /\ UNCHANGED uiVars
    /\ UNCHANGED <<runPc, total>>
    /\ UNCHANGED width
    /\ UNCHANGED notPipeVars

\* The backoff timer fires: return this.transcribeAudio(.., retryCount + 1)
BackoffElapsed(i) ==
    /\ segPc[i] = "backoff"
    /\ segPc' = [segPc EXCEPT ![i] = "calling"]
    /\ attempt' = [attempt EXCEPT ![i] = @ + 1]
    /\ netCalls' = [netCalls EXCEPT ![i] = @ + 1]
    /\ UNCHANGED <<subRetry, submissions, gotAuth, lateStarts>>
    /\ UNCHANGED uiVars
    /\ UNCHANGED runVars
    /\ UNCHANGED semVars
    /\ UNCHANGED onProgress
    /\ UNCHANGED notPipeVars

\* transcribeMultipleSegments returns: results.sort, then the caller sets
\* stage merging.
ReturnResults ==
    /\ results' = SortByIndex(results)
    /\ stage' = "merging"
    /\ runPc' = "merging"
    /\ UNCHANGED <<errors, failedSegments, total>>
    /\ UNCHANGED <<aborted, completeCalls, errorCalls, delivered>>
    /\ UNCHANGED segVars
    /\ UNCHANGED semVars

\* A rejection reaching the catch of startTranscription.
RunThrows ==
    /\ stage' = "error"
    /\ errorCalls' = errorCalls + 1
    /\ runPc' = "finished"
    /\ UNCHANGED <<results, errors, failedSegments, total>>
    /\ UNCHANGED <<aborted, completeCalls, delivered>>
    /\ UNCHANGED segVars
    /\ UNCHANGED semVars

\* await Promise.allSettled(promises) of the initial wave is over: the retry
\* wave is submitted when failedSegments is not empty, else the call returns.
InitialWaveSettled ==
    /\ runPc = "wave1"
    /\ \A i \in 1..total : Settled(i)
    /\ IF AwaitAllSettled(\E i \in 1..total : segPc[i] = "rejected") = "rejected"
       THEN RunThrows
       ELSE IF Len(failedSegments) > 0
       THEN LET st == SubmitAll(failedSegments,
                                [permits |-> permits, tasks |-> tasks, pc |-> segPc,
                                 sub |-> subRetry, count |-> submissions])
            IN /\ permits' = st.permits
               /\ tasks' = st.tasks
               /\ segPc' = st.pc
               /\ subRetry' = st.sub
               /\ submissions' = st.count
               /\ lateStarts' = IF aborted THEN lateStarts \cup Started(segPc, st.pc)
                                ELSE lateStarts
               /\ runPc' = "wave2"
               /\ UNCHANGED <<attempt, netCalls, gotAuth>>
               /\ UNCHANGED uiVars
               /\ UNCHANGED <<total, results, errors, failedSegments>>
               /\ UNCHANGED width
       ELSE ReturnResults
    /\ UNCHANGED onProgress
    /\ UNCHANGED notPipeVars

\* await Promise.allSettled(retryPromises) is over: the call returns.
RetryWaveSettled ==
    /\ runPc = "wave2"
    /\ \A i \in 1..total : Settled(i)
    /\ IF AwaitAllSettled(\E i \in 1..total : segPc[i] = "rejected") = "rejected"
       THEN RunThrows
       ELSE ReturnResults
    /\ UNCHANGED onProgress
    /\ UNCHANGED notPipeVars

\* mergeTranscriptionResults(results), stage completed,
\* onTranscriptionComplete(mergedResult).
Complete ==
    /\ runPc = "merging"
    /\ delivered' = results
    /\ stage' = "completed"
    /\ completeCalls' = completeCalls + 1
    /\ runPc' = "finished"
    /\ UNCHANGED <<aborted, errorCalls>>
    /\ UNCHANGED <<total, results, errors, failedSegments>>
    /\ UNCHANGED segVars
    /\ UNCHANGED semVars
    /\ UNCHANGED onProgress
    /\ UNCHANGED notPipeVars

\* The stop button (shown while stage is splitting or transcribing):
\* abortControllerRef.current.abort(), stage idle.
StopTranscription ==
    /\ stage \in {"splitting", "transcribing"}
    /\ aborted' = TRUE
    /\ stage' = "idle"
    /\ UNCHANGED <<completeCalls, errorCalls, delivered>>
    /\ UNCHANGED runVars
    /\ UNCHANGED segVars
    /\ UNCHANGED semVars
    /\ UNCHANGED onProgress
    /\ UNCHANGED notPipeVars

\* The buttons shown while stage is completed or error: stage idle.
ResetStage ==
    /\ stage \in {"completed", "error"}
    /\ stage' = "idle"
    /\ UNCHANGED <<aborted, completeCalls, errorCalls, delivered>>
    /\ UNCHANGED runVars
    /\ UNCHANGED segVars
    /\ UNCHANGED semVars
    /\ UNCHANGED onProgress
    /\ UNCHANGED notPipeVars

\* The steps the run takes by itself: timers, network answers, continuations.
PipelineStep ==
    \/ SplitFails
    \/ \E n \in 1..MaxSegs : SplitSucceeds(n)
    \/ \E i \in Segs : GatePassed(i)
    \/ \E i \in Segs, kind \in Responses : Response(i, kind)
    \/ \E i \in Segs : BackoffElapsed(i)
    \/ InitialWaveSettled
    \/ RetryWaveSettled
    \/ Complete

\* The steps the user takes.
UserStep ==
    \/ StartTranscription
    \/ StopTranscription
    \/ ResetStage

Next == PipelineStep \/ UserStep

Spec == Init /\ [][Next]_vars

\* Every network call and every timed wait returns, every continuation runs.
LiveSpec == Spec /\ WF_vars(PipelineStep)


\* ------------------------------------------------- claims on the pipeline
\* transcribeMultipleSegments has returned to startTranscription.
Returned == runPc \in {"merging", "finished"} /\ total > 0

\* The segments with a fragment in results.
Succeeded == {results[k] : k \in 1..Len(results)}

\* Every attempt made for segment i failed with a non-auth error.
AlwaysTransient(i) == i \notin Succeeded /\ ~gotAuth[i] /\ netCalls[i] > 0

\* C3: a segment whose transcription fails with a transient (non-auth) error
\* on every attempt is submitted through the limiter exactly 3 times (1
\* initial + 2 retry rounds) and is then recorded as permanently failed.
C3_ThreeSubmissionsThenFailed ==
    Returned =>
        \A i \in 1..total :
            AlwaysTransient(i) =>
                /\ submissions[i] = 1 + segmentRetryLimit
                /\ \E k \in 1..Len(finalErrors) : finalErrors[k].index = i

\* C3 (what the code does): the segment was submitted twice, sits in
\* failedSegments with retryCount 2 and is in no entry of finalErrors.
C3_CodeWitness ==
    /\ Returned
    /\ \E i \in 1..total :
          /\ AlwaysTransient(i)
          /\ submissions[i] = 2
          /\ \E k \in 1..Len(failedSegments) :
                failedSegments[k] = [index |-> i, retryCount |-> 2]
          /\ \A k \in 1..Len(finalErrors) : finalErrors[k].index # i

\* C4: once a request for a segment got a 401, no further network call is
\* made for that segment and it is not submitted again (no backoff retry in
\* transcribeAudio, no entry in the retry wave).
C4_NoCallAfterAuth ==
    [][ \A i \in Segs :
          (gotAuth[i] /\ gotAuth'[i]) =>
              /\ netCalls'[i] = netCalls[i]
              /\ submissions'[i] = submissions[i]
              /\ segPc'[i] = "rejected" ]_vars

\* C4: the run is over; a segment whose first call got the 401 was attempted
\* exactly once, while another segment went through the retry wave.
C4_Witness ==
    /\ runPc = "finished"
    /\ \E i, j \in 1..total :
          /\ gotAuth[i] /\ netCalls[i] = 1 /\ submissions[i] = 1
          /\ submissions[j] = 2

\* The ascending list of the members of a set of segments.
RECURSIVE Ascending(_)
Ascending(set) ==
    IF set = {} THEN <<>>
    ELSE LET m == CHOOSE x \in set : \A y \in set : x <= y
         IN <<m>> \o Ascending(set \ {m})

\* C5: failure of any subset of the segments never moves the job to stage
\* error: once the split produced segments the run never reaches the catch,
\* transcribeMultipleSegments returns the fragments that succeeded, and the
\* run ends with the merge of exactly those delivered.
C5_FailuresContained ==
    total > 0 =>
        /\ stage # "error"
        /\ errorCalls = 0
        /\ runPc = "merging" => stage = "merging"
        /\ runPc = "finished" =>
              /\ completeCalls = 1
              /\ delivered = Ascending({i \in 1..total : segPc[i] = "resolved"})

\* C5: every segment failed (one by a 401, one by exhausting its retries)
\* and the run delivered the empty merge.
C5_Witness ==
    /\ runPc = "finished" /\ total >= 2
    /\ \A i \in 1..total : segPc[i] = "rejected"
    /\ \E i \in 1..total : gotAuth[i]
    /\ \E i \in 1..total : ~gotAuth[i] /\ submissions[i] = 2
    /\ completeCalls = 1 /\ delivered = <<>>

\* C6: after stopTranscription the stage is idle, no segment not yet admitted
\* by the limiter is started, onTranscriptionComplete is not invoked for the
\* run, and the run never moves the stage out of idle again.
C6_StopIsFinal ==
    aborted =>
        /\ stage = "idle"
        /\ lateStarts = {}
        /\ completeCalls = 0

\* C6 (what the code does): the cancelled run started a queued segment after
\* the stop, delivered its result and left the stage at completed.
C6_CodeWitness ==
    /\ aborted
    /\ lateStarts # {}
    /\ completeCalls = 1
    /\ stage = "completed"

\* C7: every job started and not cancelled eventually reaches stage
\* completed or error, given that every call and every wait returns.
C7_RunEnds ==
    (runPc \notin {"none", "finished"} /\ ~aborted)
        ~> (aborted \/ (runPc = "finished" /\ stage \in {"completed", "error"}))

\* C7: an uncancelled run over two segments, with a retry wave, has ended
\* in stage completed.
C7_Witness ==
    /\ runPc = "finished" /\ ~aborted
    /\ stage = "completed"
    /\ total >= 2
    /\ Len(failedSegments) > 0

\* C18 (initial wave): while the initial wave runs, a segment has left the
\* queue only if every segment of lower index has.
C18_InitialWaveInIndexOrder ==
    runPc = "wave1" =>
        \A i, j \in 1..total :
            (i < j /\ segPc[j] # "queued") => segPc[i] # "queued"

\* the submissions of segments 1..n that have settled
RECURSIVE SettlementCount(_)
SettlementCount(n) ==
    IF n = 0 THEN 0
    ELSE SettlementCount(n - 1) + submissions[n]
         - (IF segPc[n] \in {"queued", "gate", "calling", "backoff"} THEN 1 ELSE 0)

\* the segments that have completed or failed so far
SegmentsDone ==
    {results[k] : k \in 1..Len(results)} \cup
    {errors[k].index : k \in 1..Len(errors)}

\* C20: each settlement of a submission calls the progress callback exactly
\* once, with the number of segments completed or failed so far as first
\* argument and the total number of segments as second.
C20_ProgressCountsSegments ==
    /\ onProgress.calls = SettlementCount(MaxSegs)
    /\ onProgress.calls > 0 =>
          /\ onProgress.completed = Cardinality(SegmentsDone)
          /\ onProgress.total = total

\* C20: the callback was called with a first argument above the second.
C20_CodeWitness ==
    /\ runPc = "wave2"
    /\ onProgress.completed > onProgress.total

\* C21: a run whose split produced no segment ends in stage error: its
\* stage is never transcribing (nor merging, nor completed), no segment is
\* submitted, no network call is made and nothing is delivered.
C21_NoSegmentIsError ==
    total = 0 =>
        /\ stage \notin {"transcribing", "merging", "completed"}
        /\ \A i \in Segs : netCalls[i] = 0 /\ submissions[i] = 0
        /\ completeCalls = 0 /\ delivered = <<>>
        /\ runPc = "finished" =>
              /\ errorCalls = 1
              /\ stage \in {"error", "idle"}

\* C21: the run ended on a split without segments, in stage error.
C21_Witness ==
    /\ runPc = "finished" /\ total = 0
    /\ stage = "error"
    /\ errorCalls = 1

\* C22: a run invokes exactly one of its two callbacks, when it ends:
\* onTranscriptionComplete with stage completed, or onError with stage
\* error; never both, and a run that called onError delivered nothing.
C22_ExactlyOneCallback ==
    [][ /\ completeCalls' + errorCalls' <= 1
        /\ (runPc' = "finished") <=> (completeCalls' + errorCalls' = 1)
        /\ completeCalls' > completeCalls =>
              /\ stage' = "completed"
              /\ runPc = "merging"
        /\ errorCalls' > errorCalls =>
              /\ stage' = "error"
              /\ runPc = "splitting"
        /\ errorCalls' = 1 => delivered' = <<>>
      ]_vars

\* C22: a run stopped while splitting ended in the catch: onError was
\* called once, onTranscriptionComplete was not.
C22_Witness ==
    /\ runPc = "finished" /\ aborted
    /\ stage = "error"
    /\ errorCalls = 1 /\ completeCalls = 0
    /\ delivered = <<>>

\* C23: a run in which a segment's transcription failed with a 401 ends in
\* stage error with onError called, and delivers no Transcript.
C23_AuthAbortsRun ==
    (runPc = "finished" /\ \E i \in 1..total : gotAuth[i]) =>
        /\ errorCalls = 1
        /\ completeCalls = 0
        /\ stage \in {"error", "idle"}

\* C23 (what the code does): a segment got a 401, the run went on, ended in
\* stage completed and delivered the fragment of another segment.
C23_CodeWitness ==
    /\ runPc = "finished" /\ ~aborted
    /\ \E i \in 1..total : gotAuth[i]
    /\ stage = "completed"
    /\ completeCalls = 1 /\ errorCalls = 0
    /\ delivered # <<>>

\* the stage changes the state diagram declares
DeclaredEdges ==
    { <<"idle", "splitting">>, <<"splitting", "transcribing">>,
      <<"transcribing", "merging">>, <<"merging", "completed">>,
      <<"splitting", "error">>, <<"transcribing", "error">>,
      <<"merging", "error">>,
      <<"splitting", "idle">>, <<"transcribing", "idle">>,
      <<"completed", "idle">>, <<"error", "idle">> }

\* C24: the stage changes only along the declared edges, in every execution,
\* with or without cancel.
C24_OnlyDeclaredEdges ==
    [][ stage' # stage => <<stage, stage'>> \in DeclaredEdges ]_vars

\* C24 (what the code does): the stage of a stopped run, set to idle by the
\* stop, was moved on by the run: it is merging or completed.
C24_CodeWitness ==
    /\ aborted
    /\ stage \in {"merging", "completed"}

\* C27: every submission of a segment starts transcribeAudio with a fresh
\* attempt counter: a segment that failed without a 401 in each of its
\* submissions made maxRetries + 1 network calls in each of them.
C27_FreshBudgetEachSubmission ==
    \A i \in 1..total :
        (segPc[i] = "rejected" /\ ~gotAuth[i]) =>
            netCalls[i] = (maxRetries + 1) * submissions[i]

\* C27 (what the code does): a segment failed transiently throughout its two
\* submissions, with maxRetries + 1 calls in the first and maxRetries in the
\* second, which started at retryCount 1.
C27_CodeWitness ==
    \E i \in 1..total :
        /\ segPc[i] = "rejected" /\ ~gotAuth[i]
        /\ submissions[i] = 2 /\ subRetry[i] = 1
        /\ netCalls[i] = (maxRetries + 1) + maxRetries

\* C30: when transcribeMultipleSegments has returned, the number of fragments
\* in results plus the number of entries of finalErrors is the number of
\* segments.
C30_SuccessesPlusFinalErrorsIsTotal ==
    Returned => Len(results) + Len(finalErrors) = total

\* C30 (what the code does): the call returned with a segment that is neither
\* in results nor in finalErrors; its two errors entries carry retryCount 0
\* and 1.
C30_CodeWitness ==
    /\ Returned
    /\ \E i \in 1..total :
          /\ \A k \in 1..Len(results) : results[k] # i
          /\ \A k \in 1..Len(finalErrors) : finalErrors[k].index # i
          /\ \E k \in 1..Len(errors) :
                errors[k] = [index |-> i, retryCount |-> 1, auth |-> FALSE]
    /\ Len(results) + Len(finalErrors) < total

\* The segments whose submission is queued in or admitted by the Semaphore.
InLimiter(pc) == {i \in Segs : pc[i] \in {"queued", "gate", "calling", "backoff"}}

\* C31: a segment is submitted again only in a step before which every
\* submission of the initial wave had settled and the Semaphore was empty;
\* the segments submitted again are exactly those that were rejected without
\* a 401; and they go through the same Semaphore: its width still bounds the
\* admitted ones and the others are queued.
C31_RetryWaveAfterInitialWave ==
    [][ (\E i \in Segs : submissions[i] >= 1 /\ submissions'[i] > submissions[i]) =>
          /\ runPc = "wave1"
          /\ \A j \in 1..total : segPc[j] \in {"resolved", "rejected"}
          /\ permits = width /\ tasks = <<>>
          /\ \A j \in 1..total :
                (submissions'[j] > submissions[j]) <=>
                    (segPc[j] = "rejected" /\ ~gotAuth[j])
          /\ \A j \in 1..total : submissions'[j] <= 2
          /\ permits' + Cardinality({j \in Segs : segPc'[j] = "gate"}) = width
          /\ InLimiter(segPc') = {j \in 1..total : submissions'[j] = 2}
      ]_vars

\* C31: two segments were submitted, one succeeded and one failed without a
\* 401, and the retry wave holds the failed one alone.
C31_Witness ==
    /\ runPc = "wave2"
    /\ total = 2
    /\ \E i, j \in 1..total :
          /\ submissions[i] = 2 /\ segPc[i] \in {"gate", "calling"}
          /\ submissions[j] = 1 /\ segPc[j] = "resolved"

\* C32: the stage becomes merging only in a step before which every
\* submission had settled and the Semaphore was empty; results then holds
\* exactly the segments that succeeded, in ascending index order, and that
\* list is what mergeTranscriptionResults is given.
C32_MergeAfterAllSettled ==
    [][ /\ (stage' = "merging" /\ stage # "merging") =>
              /\ InLimiter(segPc) = {}
              /\ permits = width /\ tasks = <<>>
              /\ \A j \in 1..total : segPc[j] \in {"resolved", "rejected"}
              /\ {results'[k] : k \in 1..Len(results')} =
                     {j \in 1..total : segPc[j] = "resolved"}
              /\ \A k \in 1..(Len(results') - 1) : results'[k] < results'[k + 1]
        /\ completeCalls' > completeCalls =>
              /\ stage = "merging" \/ aborted
              /\ delivered' = results
              /\ \A k \in 1..(Len(delivered') - 1) : delivered'[k] < delivered'[k + 1]
              /\ {delivered'[k] : k \in 1..Len(delivered')} =
                     {j \in 1..total : segPc[j] = "resolved"}
      ]_vars

\* C32: both segments of a run of width 2 succeeded, in either order, and
\* the merge was given them in index order.
C32_Witness ==
    /\ runPc = "finished" /\ ~aborted
    /\ total = 2
    /\ onProgress.calls = 2
    /\ delivered = <<1, 2>>
    /\ width = 2

\* C35: in every call of the progress callback the first argument is at most
\* the second, and it is not below the first argument of the call before.
C35_ProgressBoundedMonotone ==
    [][ onProgress'.calls > onProgress.calls =>
          /\ onProgress'.completed <= onProgress'.total
          /\ onProgress.calls > 0 => onProgress'.completed >= onProgress.completed
      ]_vars

\* C35 (what the code does): the run of one segment has returned after two
\* calls of the callback, the last one with (2, 1).
C35_CodeWitness ==
    /\ Returned
    /\ onProgress = [calls |-> 2, completed |-> 2, total |-> 1]

\* C36: results never holds two fragments of one segment nor more fragments
\* than there are segments, and a segment with a fragment in results is not
\* submitted again.
C36_OneFragmentPerSegment ==
    [][ /\ \A k, l \in 1..Len(results') : k # l => results'[k] # results'[l]
        /\ Len(results') <= total'
        /\ \A k \in 1..Len(results') : results'[k] \in 1..total'
        /\ \A i \in Segs :
              (submissions'[i] > submissions[i] /\ submissions[i] >= 1) =>
                  i \notin Succeeded
        /\ \A i \in Succeeded :
              i \in {results'[k] : k \in 1..Len(results')} =>
                  /\ segPc'[i] = "resolved"
                  /\ netCalls'[i] = netCalls[i]
      ]_vars

\* C36: the run returned after a retry wave; one segment succeeded in the
\* initial wave and was submitted once, the other succeeded in the retry wave.
C36_Witness ==
    /\ Returned
    /\ results = <<1, 2>>
    /\ \E i, j \in 1..total :
          /\ submissions[i] = 1
          /\ submissions[j] = 2

\* C38: when transcribeMultipleSegments has returned, every entry of
\* failedSegments was submitted: its segment has had the submission with the
\* entry's retryCount.
C38_NoRetryLeftUndispatched ==
    Returned =>
        \A k \in 1..Len(failedSegments) :
            submissions[failedSegments[k].index] >= failedSegments[k].retryCount + 1

\* C38 (what the code does): the call returned with an entry of retryCount 2
\* in failedSegments for a segment that was submitted twice, with retryCount
\* 0 and 1.
C38_CodeWitness ==
    /\ Returned
    /\ \E k \in 1..Len(failedSegments) :
          /\ failedSegments[k].retryCount = segmentRetryLimit
          /\ submissions[failedSegments[k].index] = segmentRetryLimit
          /\ subRetry[failedSegments[k].index] = segmentRetryLimit - 1

\* =============================================== mergeTranscriptionResults
\* Times of fragments are integers (milliseconds in the 0 s / 59 s example,
\* abstract units otherwise); a text is the sequence of its characters.
Max(a, b) == IF a > b THEN a ELSE b
Range(list) == {list[k] : k \in 1..Len(list)}

\* String.prototype.trim: the white space at both ends is taken off
RECURSIVE TrimStart(_)
TrimStart(text) ==
    IF text # <<>> /\ Head(text) = " " THEN TrimStart(Tail(text)) ELSE text

RECURSIVE TrimEnd(_)
TrimEnd(text) ==
    IF text # <<>> /\ text[Len(text)] = " "
    THEN TrimEnd(SubSeq(text, 1, Len(text) - 1))
    ELSE text

Trim(text) == TrimEnd(TrimStart(text))

\* Array.prototype.join(' ')
RECURSIVE JoinWithSpace(_)
JoinWithSpace(texts) ==
    IF texts = <<>> THEN <<>>
    ELSE IF Len(texts) = 1 THEN texts[1]
    ELSE texts[1] \o <<" ">> \o JoinWithSpace(Tail(texts))

\* segment.start + timeOffset, word.start + timeOffset (and the ends)
\* (OffsetDropped: the local time kept as it is)
OffsetDropped(t, timeOffset) == t
Offset(t, timeOffset) == t + timeOffset

\* result.segments.forEach(segment => mergedSegments.push({...segment,
\*   id: mergedSegments.length, start: ..., end: ...}))
PushSegments(mergedSegments, result) ==
    mergedSegments \o
        [j \in 1..Len(result.segments) |->
            [result.segments[j] EXCEPT
                !.id = Len(mergedSegments) + j - 1,
                !.start = Offset(@, result.startTime),
                !.end = Offset(@, result.startTime)]]

\* result.words.forEach(word => mergedWords.push({...word, start: ..., end: ...}))
PushWords(mergedWords, result) ==
    mergedWords \o
        [j \in 1..Len(result.words) |->
            [result.words[j] EXCEPT
                !.start = Offset(@, result.startTime),
                !.end = Offset(@, result.startTime)]]

\* totalDuration = Math.max(totalDuration, result.endTime)
\* (DurationSummed: the end times added up)
DurationSummed(totalDuration, endTime) == totalDuration + endTime
DurationSoFar(totalDuration, endTime) == Max(totalDuration, endTime)

\* results.forEach((result) => { ... }), from the k-th result on
RECURSIVE ForEachResult(_, _, _)
ForEachResult(list, k, acc) ==
    IF k > Len(list) THEN acc
    ELSE ForEachResult(list, k + 1,
            [mergedSegments |-> PushSegments(acc.mergedSegments, list[k]),
             mergedWords |-> PushWords(acc.mergedWords, list[k]),
             totalDuration |-> DurationSoFar(acc.totalDuration, list[k].endTime)])

\* the result for results.length === 0
\* (EmptyTranscriptNoLanguage: the same without the 'ja' marker)
EmptyTranscriptNoLanguage ==
    [text |-> <<>>, segments |-> <<>>, words |-> <<>>, language |-> "",
     duration |-> 0]
EmptyTranscript ==
    [text |-> <<>>, segments |-> <<>>, words |-> <<>>, language |-> "ja",
     duration |-> 0]

mergeTranscriptionResults(list) ==
    IF Len(list) = 0 THEN EmptyTranscript
    ELSE LET acc == ForEachResult(list, 1,
                        [mergedSegments |-> <<>>, mergedWords |-> <<>>,
                         totalDuration |-> 0])
         IN [text |-> JoinWithSpace([k \in 1..Len(list) |-> Trim(list[k].text)]),
             segments |-> acc.mergedSegments,
             words |-> acc.mergedWords,
             language |-> list[1].language,
             duration |-> acc.totalDuration]

\* results.sort((a, b) => a.index - b.index) on the fragments themselves
\* (SortDropped: the list left in completion order)
SortDropped(list) == list
RECURSIVE SortResults(_)
SortResults(list) ==
    IF list = <<>> THEN <<>>
    ELSE LET m == CHOOSE x \in Range(list) :
                      \A y \in Range(list) : x.index <= y.index
         IN <<m>> \o SortResults(SelectSeq(list, LAMBDA x : x # m))

\* ---- the lists of fragments MergeSpec starts from
TranscriptionWord(w, s, e) == [word |-> w, start |-> s, end |-> e]
TranscriptionSegment(id, s, e, t) == [id |-> id, start |-> s, end |-> e, text |-> t]

\* Answers of the service for a segment lasting len: nothing heard, a span
\* at the start, a span at the end, one at each end.  Ids and times are
\* local to the segment and the spans are in ascending order.
TranscriptionResults(len) ==
    { [text |-> <<>>, segments |-> <<>>, words |-> <<>>, language |-> "ja"],
      [text |-> <<" ", "a">>,
       segments |-> <<TranscriptionSegment(0, 0, 1, "a")>>,
       words |-> <<TranscriptionWord("a", 0, 1)>>, language |-> "en"],
      [text |-> <<"b", " ">>,
       segments |-> <<TranscriptionSegment(0, len - 1, len, "b")>>,
       words |-> <<TranscriptionWord("b", len - 1, len)>>, language |-> "ja"],
      [text |-> <<"a", " ", "b">>,
       segments |-> <<TranscriptionSegment(0, 0, 1, "a"),
                      TranscriptionSegment(1, len - 1, len, "b")>>,
       words |-> <<TranscriptionWord("a", 0, 1),
                   TranscriptionWord("b", len - 1, len)>>, language |-> "ja"] }

\* resultWithMeta = {...result, index, startTime, endTime} for the segment
\* of index k cut with step FragStep and overlap ov
ResultWithMeta(result, k, ov) ==
    [text |-> result.text, segments |-> result.segments, words |-> result.words,
     language |-> result.language,
     index |-> k, startTime |-> k * FragStep,
     endTime |-> k * FragStep + FragStep + ov]

Orderings(S) ==
    {order \in [1..Cardinality(S) -> S] :
        \A p, q \in 1..Cardinality(S) : p # q => order[p] # order[q]}

\* the results of the segments of S, in the completion order given
CompletedResults(S, order, answer, ov) ==
    [p \in 1..Cardinality(S) |-> ResultWithMeta(answer[order[p]], order[p], ov)]

MergeInit ==
    /\ \/ \E ov \in 0..MaxFragOverlap, S \in SUBSET (0..MaxFragIndex) :
             \E order \in Orderings(S),
                answer \in [S -> TranscriptionResults(FragStep + ov)] :
                 fragments = CompletedResults(S, order, answer, ov)
       \* segments of 60 s with 1 s overlap, the second completing first
       \/ fragments =
             << [text |-> <<"b">>, segments |-> <<>>,
                 words |-> <<TranscriptionWord("b", 0, 500)>>, language |-> "ja",
                 index |-> 1, startTime |-> 59000, endTime |-> 119000],
                [text |-> <<"a">>, segments |-> <<>>,
                 words |-> <<TranscriptionWord("a", 0, 500)>>, language |-> "ja",
                 index |-> 0, startTime |-> 0, endTime |-> 60000] >>
    /\ transcript = <<>>
    /\ mergePc = "given"
    /\ sortedFirst = FALSE
    \* no segmenter, Semaphore or run
    /\ sampleRate = 1 /\ bufLength = 0 /\ segmentDuration = 1 /\ overlap = 0
    /\ currentPosition = 0 /\ segmentIndex = 0 /\ segments = <<>>
    /\ splitPc = "done"
    /\ width = 1 /\ permits = 1 /\ tasks = <<>>
    /\ lastRequestTime = 0 /\ now = 0
    /\ taskPc = <<>> /\ wakeAt = <<>> /\ stampedAt = <<>>
    /\ stage = "idle" /\ aborted = FALSE /\ completeCalls = 0 /\ errorCalls = 0
    /\ delivered = <<>>
    /\ runPc = "none" /\ total = 0 /\ results = <<>> /\ errors = <<>>
    /\ failedSegments = <<>>
    /\ onProgress = [calls |-> 0, completed |-> 0, total |-> 0]
    /\ segPc = <<>> /\ subRetry = <<>> /\ attempt = <<>> /\ netCalls = <<>>
    /\ submissions = <<>> /\ gotAuth = <<>> /\ lateStarts = {}
    \* no file is offered to the uploader
    /\ uploadError = "null" /\ selectedFile = NoFile /\ pageSelectedFile = NoFile
    /\ onFileSelectCalls = 0 /\ offeredFile = NoFile /\ offeredVia = "none"
    \* transcribeAudio is not called on its own
    /\ frames = <<>> /\ callPc = "none" /\ fetches = 0
    /\ response = NoResponse /\ random = 0 /\ waitTime = 0
    \* the runs of the component are not told apart
    /\ runs = <<>>

\* transcribeMultipleSegments sorts its results before it returns them
SortBeforeReturn ==
    /\ mergePc = "given"
    /\ fragments' = SortResults(fragments)
    /\ mergePc' = "sorted"
    /\ sortedFirst' = TRUE
    /\ UNCHANGED transcript
    /\ UNCHANGED notMergeVars

\* mergeTranscriptionResults(results): by the component on the list
\* transcribeMultipleSegments returned, or by any caller on the list it has
MergeCalled ==
    /\ mergePc \in {"given", "sorted"}
    /\ transcript' = mergeTranscriptionResults(fragments)
    /\ mergePc' = "merged"
    /\ UNCHANGED <<fragments, sortedFirst>>
    /\ UNCHANGED notMergeVars

MergeNext == SortBeforeReturn \/ MergeCalled

MergeSpec == MergeInit /\ [][MergeNext]_vars

\* ---------------------------------------------------- claims on the merge
\* the fragments of a list in ascending order of their segment index
InIndexOrder(list) ==
    [k \in 1..Len(list) |->
        CHOOSE f \in Range(list) :
            Cardinality({g \in Range(list) : g.index < f.index}) = k - 1]

\* how many word spans (sub-segment spans) the fragments before the p-th hold
RECURSIVE WordsBefore(_, _)
WordsBefore(list, p) ==
    IF p <= 1 THEN 0 ELSE WordsBefore(list, p - 1) + Len(list[p - 1].words)

RECURSIVE SegmentsBefore(_, _)
SegmentsBefore(list, p) ==
    IF p <= 1 THEN 0 ELSE SegmentsBefore(list, p - 1) + Len(list[p - 1].segments)

C14_SpansOffsetInOrder ==
    mergePc = "merged" =>
        LET n == Len(fragments) IN
        /\ sortedFirst =>
              \A p \in 1..(n - 1) : fragments[p].index < fragments[p + 1].index
        /\ Len(transcript.words) = WordsBefore(fragments, n + 1)
        /\ Len(transcript.segments) = SegmentsBefore(fragments, n + 1)
        /\ \A p \in 1..n :
              /\ \A j \in 1..Len(fragments[p].words) :
                    LET local == fragments[p].words[j]
                        merged == transcript.words[WordsBefore(fragments, p) + j]
                    IN /\ merged.word = local.word
                       /\ merged.start = local.start + fragments[p].startTime
                       /\ merged.end = local.end + fragments[p].startTime
              /\ \A j \in 1..Len(fragments[p].segments) :
                    LET local == fragments[p].segments[j]
                        merged == transcript.segments[SegmentsBefore(fragments, p) + j]
                    IN /\ merged.text = local.text
                       /\ merged.start = local.start + fragments[p].startTime
                       /\ merged.end = local.end + fragments[p].startTime

\* C14: the fragments starting at 0 s and 59 s, each with one word at local
\* [0.0, 0.5], are merged to words at [0.0, 0.5] and [59.0, 59.5].
C14_ExampleReached ==
    /\ mergePc = "merged" /\ sortedFirst
    /\ transcript.words = << TranscriptionWord("a", 0, 500),
                             TranscriptionWord("b", 59000, 59500) >>

\* C15: fragments merged in index order, with local spans in ascending order
\* inside [0, segment duration], give merged word and sub-segment lists in
\* ascending order of absolute start time.
C15_MergedSpansAscending ==
    (mergePc = "merged" /\ sortedFirst) =>
        /\ \A k \in 1..(Len(transcript.words) - 1) :
              transcript.words[k].start <= transcript.words[k + 1].start
        /\ \A k \in 1..(Len(transcript.segments) - 1) :
              transcript.segments[k].start <= transcript.segments[k + 1].start

\* C15: two consecutive overlapping segments were merged in index order,
\* the first with a span at its end, the second with a span at its start.
C15_CodeWitness ==
    /\ mergePc = "merged" /\ sortedFirst
    /\ \E p \in 1..(Len(fragments) - 1) :
          /\ fragments[p + 1].index = fragments[p].index + 1
          /\ fragments[p + 1].startTime < fragments[p].endTime
          /\ Len(fragments[p].words) = 2
          /\ Len(fragments[p + 1].words) = 2

\* C16: the duration of the Transcript of a non-empty list is the largest
\* endTime among its fragments, in whatever order they are listed.
C16_DurationIsMaxEndTime ==
    (mergePc = "merged" /\ fragments # <<>>) =>
        \E f \in Range(fragments) :
            /\ transcript.duration = f.endTime
            /\ \A g \in Range(fragments) : g.endTime <= f.endTime

\* C16: several fragments were merged as listed, the last of the list not
\* being the one that ends last.
C16_Witness ==
    /\ mergePc = "merged" /\ ~sortedFirst
    /\ Len(fragments) >= 2
    /\ fragments[Len(fragments)].endTime < transcript.duration

\* C17: the Transcript of the empty list has the empty text, no sub-segment
\* span, no word span, language 'ja' and duration 0.
C17_EmptyListTranscript ==
    (mergePc = "merged" /\ fragments = <<>>) =>
        /\ transcript.text = <<>>
        /\ transcript.segments = <<>>
        /\ transcript.words = <<>>
        /\ transcript.language = "ja"
        /\ transcript.duration = 0

\* C17: the empty list was merged and a Transcript came back.
C17_Witness ==
    /\ mergePc = "merged"
    /\ fragments = <<>>
    /\ DOMAIN transcript = {"text", "segments", "words", "language", "duration"}

\* C33: the language of the Transcript merged from the list
\* transcribeMultipleSegments returned is the language of the fragment with
\* the lowest segment index among those that succeeded.
C33_LanguageOfLowestIndex ==
    (mergePc = "merged" /\ sortedFirst /\ fragments # <<>>) =>
        \E f \in Range(fragments) :
            /\ \A g \in Range(fragments) : f.index <= g.index
            /\ transcript.language = f.language

\* C33: segment 0 has no fragment, the fragment of segment 1 is in 'en', a
\* later one in 'ja', and the Transcript is in 'en'.
C33_Witness ==
    /\ mergePc = "merged" /\ sortedFirst
    /\ Len(fragments) >= 2
    /\ \A f \in Range(fragments) : f.index >= 1
    /\ \E f, g \in Range(fragments) :
          /\ f.index = 1 /\ f.language = "en"
          /\ g.index > 1 /\ g.language = "ja"
    /\ transcript.language = "en"

\* =========================================================== AudioUploader
SUPPORTED_FORMATS ==
    {"audio/mp3", "audio/mpeg", "audio/wav", "audio/m4a", "audio/ogg",
     "audio/flac", "audio/x-m4a"}
SUPPORTED_EXTENSIONS ==
    { <<".", "m", "p", "3">>, <<".", "w", "a", "v">>, <<".", "m", "4", "a">>,
      <<".", "o", "g", "g">>, <<".", "f", "l", "a", "c">> }
\* 100 * 1024 * 1024 bytes
MAX_FILE_SIZE == 104857600

\* the two messages of validateFile (in the source they are Japanese text)
FormatError == "unsupported file format"
SizeError == "file size exceeds 100MB"

\* the files offered: sizes at and around the limit, a supported and an
\* unsupported MIME type and none, names with a supported extension in lower
\* and upper case, with the letters of one but no dot, and with another one
FileSizes ==
    {0} \cup ((MAX_FILE_SIZE - SizeMargin)..(MAX_FILE_SIZE + SizeMargin))
FileTypes == {"audio/mpeg", "video/mp4", ""}
FileNames ==
    { <<"a", ".", "m", "p", "3">>, <<"A", ".", "M", "P", "3">>,
      <<"a", "m", "p", "3">>, <<"a", ".", "t", "x", "t">> }
Files == [size : FileSizes, type : FileTypes, name : FileNames]

\* String.prototype.toLowerCase, on the letters the names are written with
LowerCaseChar(c) ==
    CASE c = "A" -> "a"
      [] c = "M" -> "m"
      [] c = "P" -> "p"
      [] OTHER -> c
toLowerCase(name) == [k \in 1..Len(name) |-> LowerCaseChar(name[k])]

\* String.prototype.endsWith
endsWith(name, ext) ==
    /\ Len(ext) <= Len(name)
    /\ SubSeq(name, Len(name) - Len(ext) + 1, Len(name)) = ext

\* (validateFileNoSizeLimit: the format is checked, the size is not)
validateFileNoSizeLimit(file) ==
    LET isValidMimeType == file.type \in SUPPORTED_FORMATS
        fileName == toLowerCase(file.name)
        isValidExtension == \E ext \in SUPPORTED_EXTENSIONS : endsWith(fileName, ext)
    IN  IF ~isValidMimeType /\ ~isValidExtension THEN FormatError ELSE "null"

validateFile(file) ==
    LET isValidMimeType == file.type \in SUPPORTED_FORMATS
        fileName == toLowerCase(file.name)
        isValidExtension == \E ext \in SUPPORTED_EXTENSIONS : endsWith(fileName, ext)
    IN  IF ~isValidMimeType /\ ~isValidExtension THEN FormatError
        ELSE IF file.size > MAX_FILE_SIZE THEN SizeError
        ELSE "null"

\* the page's handleFileSelect, which the uploader is given as onFileSelect:
\* the file becomes the page's selectedFile, which TranscriptionProcessor
\* is rendered with
onFileSelect(file) ==
    /\ pageSelectedFile' = file
    /\ onFileSelectCalls' = onFileSelectCalls + 1

handleFile(file) ==
    LET validation == validateFile(file)
    IN  IF validation # "null"
        THEN /\ uploadError' = validation
             /\ UNCHANGED <<selectedFile, pageSelectedFile, onFileSelectCalls>>
        ELSE /\ uploadError' = "null"
             /\ selectedFile' = file
             /\ onFileSelect(file)

\* the listener the effect adds to the hidden input
handleInputChange(file) ==
    LET validation == validateFile(file)
    IN  IF validation # "null"
        THEN /\ uploadError' = validation
             /\ UNCHANGED <<selectedFile, pageSelectedFile, onFileSelectCalls>>
        ELSE /\ uploadError' = "null"
             /\ selectedFile' = file
             /\ onFileSelect(file)

\* the once-listener of the input triggerFileInput creates
handleFileSelect(file) ==
    LET validation == validateFile(file)
    IN  IF validation # "null"
        THEN /\ uploadError' = validation
             /\ UNCHANGED <<selectedFile, pageSelectedFile, onFileSelectCalls>>
        ELSE /\ uploadError' = "null"
             /\ selectedFile' = file
             /\ onFileSelect(file)

UploadInit ==
    /\ uploadError = "null" /\ selectedFile = NoFile /\ pageSelectedFile = NoFile
    /\ onFileSelectCalls = 0 /\ offeredFile = NoFile /\ offeredVia = "none"
    \* no segmenter, Semaphore, run or merge
    /\ sampleRate = 1 /\ bufLength = 0 /\ segmentDuration = 1 /\ overlap = 0
    /\ currentPosition = 0 /\ segmentIndex = 0 /\ segments = <<>>
    /\ splitPc = "done"
    /\ width = 1 /\ permits = 1 /\ tasks = <<>>
    /\ lastRequestTime = 0 /\ now = 0
    /\ taskPc = <<>> /\ wakeAt = <<>> /\ stampedAt = <<>>
    /\ stage = "idle" /\ aborted = FALSE /\ completeCalls = 0 /\ errorCalls = 0
    /\ delivered = <<>>
    /\ runPc = "none" /\ total = 0 /\ results = <<>> /\ errors = <<>>
    /\ failedSegments = <<>>
    /\ onProgress = [calls |-> 0, completed |-> 0, total |-> 0]
    /\ segPc = <<>> /\ subRetry = <<>> /\ attempt = <<>> /\ netCalls = <<>>
    /\ submissions = <<>> /\ gotAuth = <<>> /\ lateStarts = {}
    /\ fragments = <<>> /\ transcript = <<>> /\ mergePc = "none"
    /\ sortedFirst = FALSE
    \* transcribeAudio is not called on its own
    /\ frames = <<>> /\ callPc = "none" /\ fetches = 0
    /\ response = NoResponse /\ random = 0 /\ waitTime = 0
    \* the runs of the component are not told apart
    /\ runs = <<>>

\* A file is dropped on the upload area (the area takes drops whether or not
\* a file is selected).
HandleDrop ==
    /\ onFileSelectCalls < MaxSelections
    /\ \E file \in Files :
          /\ offeredFile' = file /\ offeredVia' = "drop"
          /\ handleFile(file)
    /\ UNCHANGED notUploadVars

\* React's onInput / onChange of the hidden input, which is rendered while
\* the uploader has no selectedFile.
HandleFileInput ==
    /\ onFileSelectCalls < MaxSelections
    /\ selectedFile = NoFile
    /\ \E file \in Files :
          /\ offeredFile' = file /\ offeredVia' = "fileInput"
          /\ handleFile(file)
    /\ UNCHANGED notUploadVars

\* The 'change' / 'input' listener the effect added to the hidden input. The
\* effect runs at mount only (onFileSelect does not change), so the element
\* carrying the listener is gone after the first selection.
DirectListener ==
    /\ onFileSelectCalls < MaxSelections
    /\ selectedFile = NoFile /\ onFileSelectCalls = 0
    /\ \E file \in Files :
          /\ offeredFile' = file /\ offeredVia' = "directListener"
          /\ handleInputChange(file)
    /\ UNCHANGED notUploadVars

\* A click on the area or on the button (both need no selectedFile) creates
\* an input, and a file is chosen in it.
TriggerFileInput ==
    /\ onFileSelectCalls < MaxSelections
    /\ selectedFile = NoFile
    /\ \E file \in Files :
          /\ offeredFile' = file /\ offeredVia' = "dynamicInput"
          /\ handleFileSelect(file)
    /\ UNCHANGED notUploadVars

\* The button shown with a selected file: the uploader forgets the file, the
\* page keeps it.
ClearSelection ==
    /\ selectedFile # NoFile
    /\ selectedFile' = NoFile
    /\ uploadError' = "null"
    /\ UNCHANGED <<pageSelectedFile, onFileSelectCalls, offeredFile, offeredVia>>
    /\ UNCHANGED notUploadVars

UploadNext ==
    HandleDrop \/ HandleFileInput \/ DirectListener \/ TriggerFileInput
        \/ ClearSelection

UploadSpec == UploadInit /\ [][UploadNext]_vars

\* C25: a file above 100 * 1024 * 1024 bytes, by whichever path it is
\* offered, is not passed to onFileSelect: the call count and the page's file
\* stay as they were, the uploader shows an error, and no file above the
\* limit is ever the uploader's or the page's selected file.
C25_OversizeNeverSelected ==
    [][ /\ offeredFile'.size > MAX_FILE_SIZE =>
              /\ onFileSelectCalls' = onFileSelectCalls
              /\ pageSelectedFile' = pageSelectedFile
        /\ pageSelectedFile'.size <= MAX_FILE_SIZE
        /\ selectedFile'.size <= MAX_FILE_SIZE
      ]_vars

\* C25: a file of a supported format, one byte above the limit, was chosen in
\* the dynamically created input after another was accepted by a drop, and
\* was turned down with the size message.
C25_Witness ==
    /\ offeredVia = "dynamicInput"
    /\ offeredFile.size = MAX_FILE_SIZE + 1
    /\ offeredFile.type \in SUPPORTED_FORMATS
    /\ uploadError = SizeError
    /\ onFileSelectCalls = 1
    /\ pageSelectedFile.size = MAX_FILE_SIZE

\* ================================================ one call of transcribeAudio
\* const baseDelay = 1000
baseDelay == 1000

\* Math.random() * 1000: a value of [0, 1000), here one of NumJitters + 1
\* whole numbers from 0 to 999
Jitters == {(k * 999) \div NumJitters : k \in 0..NumJitters}

\* The group /try again in ([\d.]+)s/ captures when the message matches,
\* written in ms (parseFloat(..) * 1000 of a decimal number of seconds):
\* <<>> is no match, <<ms>> a match.
SuggestedWaits == {<<(2 ^ k) * 1000 - 300>> : k \in 0..MaxSuggested}

\* The answers of one fetch with what the error message holds: the kinds of
\* Responses and 413; a 429 and another failure may carry a suggested wait.
CallResponses ==
    [kind : {"ok", "auth", "tooLarge"}, waitTimeMatch : {<<>>}]
        \cup [kind : {"rate", "transient"}, waitTimeMatch : SuggestedWaits \cup {<<>>}]

\* (BackoffLinear: the delay grows by baseDelay per attempt, not doubling)
BackoffLinear(retryCount, rnd) == baseDelay * (retryCount + 1) + rnd
\* baseDelay * Math.pow(2, retryCount) + Math.random() * 1000
Backoff(retryCount, rnd) == baseDelay * (2 ^ retryCount) + rnd

\* waitTime of the 429 branch
RateLimitWait(retryCount, rnd, waitTimeMatch) ==
    IF waitTimeMatch # <<>>
    THEN LET extractedWaitTime == waitTimeMatch[1]
         IN Max(Backoff(retryCount, rnd), extractedWaitTime + 500)
    ELSE Backoff(retryCount, rnd)

\* Whether the rejection of the inner call passes the catch of the frame that
\* made it from the given branch. From the 429 branch the call is
\* `return this.transcribeAudio(..)` inside the try, without await: the
\* promise is handed on and the try block is left; from the catch it is
\* outside any try.
\* (RejectionCaughtInTry: as with `return await` in the 429 branch)
RejectionCaughtInTry(branch) == branch = "try429"
RejectionCaught(branch) == FALSE

\* processSegment passes the retryCount of its wave: 0 or 1
StartRetryCounts == 0..(segmentRetryLimit - 1)

Top(stack) == stack[Len(stack)]
Pop(stack) == SubSeq(stack, 1, Len(stack) - 1)

CallInit ==
    /\ \E r \in StartRetryCounts :
          frames = <<[retryCount |-> r, branch |-> "fetch"]>>
    \* the first fetch is under way
    /\ callPc = "fetching"
    /\ fetches = 1
    /\ response = NoResponse /\ random = 0 /\ waitTime = 0
    \* no segmenter, Semaphore, run, merge or upload
    /\ sampleRate = 1 /\ bufLength = 0 /\ segmentDuration = 1 /\ overlap = 0
    /\ currentPosition = 0 /\ segmentIndex = 0 /\ segments = <<>>
    /\ splitPc = "done"
    /\ width = 1 /\ permits = 1 /\ tasks = <<>>
    /\ lastRequestTime = 0 /\ now = 0
    /\ taskPc = <<>> /\ wakeAt = <<>> /\ stampedAt = <<>>
    /\ stage = "idle" /\ aborted = FALSE /\ completeCalls = 0 /\ errorCalls = 0
    /\ delivered = <<>>
    /\ runPc = "none" /\ total = 0 /\ results = <<>> /\ errors = <<>>
    /\ failedSegments = <<>>
    /\ onProgress = [calls |-> 0, completed |-> 0, total |-> 0]
    /\ segPc = <<>> /\ subRetry = <<>> /\ attempt = <<>> /\ netCalls = <<>>
    /\ submissions = <<>> /\ gotAuth = <<>> /\ lateStarts = {}
    /\ fragments = <<>> /\ transcript = <<>> /\ mergePc = "none"
    /\ sortedFirst = FALSE
    /\ uploadError = "null" /\ selectedFile = NoFile /\ pageSelectedFile = NoFile
    /\ onFileSelectCalls = 0 /\ offeredFile = NoFile /\ offeredVia = "none"
    \* the runs of the component are not told apart
    /\ runs = <<>>

\* The fetch of the innermost frame is answered: the frame returns the
\* result, throws, or starts the wait of the 429 branch or of the catch.
FetchAnswered ==
    /\ callPc = "fetching"
    /\ \E answer \in CallResponses, rnd \in Jitters :
          LET retryCount == Top(frames).retryCount
              outcome == CallOutcome(answer.kind, retryCount)
          IN  /\ response' = answer
              /\ CASE outcome = "return" ->
                        /\ callPc' = "resolving"
                        /\ UNCHANGED <<frames, random, waitTime>>
                   [] outcome = "throw" ->
                        /\ callPc' = "rejecting"
                        /\ UNCHANGED <<frames, random, waitTime>>
                   [] outcome = "retry" ->
                        /\ callPc' = "waiting"
                        /\ random' = rnd
                        /\ waitTime' =
                              IF answer.kind = "rate"
                              THEN RateLimitWait(retryCount, rnd, answer.waitTimeMatch)
                              ELSE Backoff(retryCount, rnd)
                        /\ frames' = [frames EXCEPT ![Len(frames)].branch =
                              IF answer.kind = "rate" THEN "try429" ELSE "catch"]
    /\ UNCHANGED fetches
    /\ UNCHANGED notCallVars

\* The timer of the wait fires: this.transcribeAudio(.., retryCount + 1),
\* whose fetch starts.
TimerFires ==
    /\ callPc = "waiting"
    /\ frames' = Append(frames, [retryCount |-> Top(frames).retryCount + 1,
                                 branch |-> "fetch"])
    /\ callPc' = "fetching"
    /\ fetches' = fetches + 1
    /\ UNCHANGED <<response, random, waitTime>>
    /\ UNCHANGED notCallVars

\* The innermost call settled: the frame that made it settles the same way,
\* unless its catch takes the rejection, which then retries like any failure.
SettleEnclosing ==
    /\ callPc \in {"resolving", "rejecting"}
    /\ Len(frames) > 1
    /\ LET outer == frames[Len(frames) - 1] IN
       IF callPc = "rejecting" /\ RejectionCaught(outer.branch)
             /\ outer.retryCount < maxRetries /\ response.kind # "auth"
       THEN \E rnd \in Jitters :
               /\ frames' = [Pop(frames) EXCEPT ![Len(frames) - 1].branch = "catch"]
               /\ callPc' = "waiting"
               /\ random' = rnd
               /\ waitTime' = Backoff(outer.retryCount, rnd)
       ELSE /\ frames' = Pop(frames)
            /\ UNCHANGED <<callPc, random, waitTime>>
    /\ UNCHANGED <<fetches, response>>
    /\ UNCHANGED notCallVars

\* The promise of the invocation itself settles.
SettleOutermost ==
    /\ callPc \in {"resolving", "rejecting"}
    /\ Len(frames) = 1
    /\ callPc' = IF callPc = "resolving" THEN "returned" ELSE "thrown"
    /\ UNCHANGED <<frames, fetches, response, random, waitTime>>
    /\ UNCHANGED notCallVars

CallNext == FetchAnswered \/ TimerFires \/ SettleEnclosing \/ SettleOutermost

CallSpec == CallInit /\ [][CallNext]_vars

\* C26: an invocation started with retryCount 0 makes at most maxRetries + 1
\* fetches; it throws a retryable failure only after the fetch of the 3rd
\* retry; and once a frame has thrown, no enclosing frame fetches again: the
\* rejection goes up to the caller.
C26_AtMostFourCalls ==
    [][ frames[1].retryCount = 0 =>
          /\ fetches' <= maxRetries + 1
          /\ callPc' = "waiting" => fetches' <= maxRetries
          /\ callPc = "rejecting" =>
                /\ callPc' \in {"rejecting", "thrown"}
                /\ fetches' = fetches
          /\ (callPc' = "thrown" /\ response'.kind # "auth") =>
                fetches' = maxRetries + 1
      ]_vars

\* C26: an invocation started at 0 whose four fetches were answered 429 (the
\* last one) has thrown.
C26_Witness ==
    /\ callPc = "thrown"
    /\ frames = <<[retryCount |-> 0, branch |-> "try429"]>>
    /\ fetches = maxRetries + 1
    /\ response.kind = "rate"

\* C28: the wait before retry k (the retryCount of the waiting frame) is at
\* least 1000 * 2^k ms; after a 429 whose message holds 'try again in S s' it
\* is the larger of backoff (1000 * 2^k plus the jitter) and 1000 * S + 500;
\* otherwise it is below 1000 * 2^k + 1000.
C28_WaitWithinBackoffWindow ==
    callPc = "waiting" =>
        LET k == Top(frames).retryCount
            lo == 1000 * (2 ^ k)
        IN  /\ k \in 0..2
            /\ random \in 0..999
            /\ lo <= waitTime
            /\ IF response.kind = "rate" /\ response.waitTimeMatch # <<>>
               THEN /\ waitTime = Max(lo + random, response.waitTimeMatch[1] + 500)
                    /\ waitTime >= response.waitTimeMatch[1] + 500
               ELSE /\ waitTime = lo + random
                    /\ waitTime < lo + 1000

\* C28: before retry 2, after a 429 suggesting 7.7 s, the wait is 8200 ms,
\* above the backoff window of 4000..4999.
C28_Witness ==
    /\ callPc = "waiting"
    /\ Top(frames).retryCount = 2
    /\ response = [kind |-> "rate", waitTimeMatch |-> <<7700>>]
    /\ waitTime = 8200

\* C29: after a fetch was answered 413, the invocation makes no further
\* fetch.
C29_TooLargeNotSentAgain ==
    [][ response.kind = "tooLarge" => fetches' = fetches ]_vars

\* C29 (what the code does): the fetch was answered 413 and the catch
\* started the backoff wait before sending the same blob again.
C29_CodeWitness ==
    /\ callPc = "waiting"
    /\ response.kind = "tooLarge"
    /\ Top(frames).branch = "catch"
    /\ waitTime = Backoff(Top(frames).retryCount, random)

\* ================================== several runs of one AudioProcessor component
\* The presses of the start button are numbered in their order. Each run is
\* followed from startTranscription to its last statement; the requests are
\* answered 2xx or 401, which settle a submission without backoff or retry
\* wave.
Runs == 1..MaxRuns

\* a run before its start
NoRun ==
    [pc |-> "none", permits |-> 0, tasks |-> <<>>,
     segPc |-> [i \in Segs |-> "none"]]

\* the submissions of run r admitted by the Semaphore of the run
RunAdmitted(r) == {i \in Segs : runs[r].segPc[i] = "gate"}

RunsInit ==
    /\ runs = [r \in Runs |-> NoRun]
    /\ stage = "idle" /\ aborted = FALSE
    /\ width \in 1..MaxWidth
    \* the run, the Semaphore and the callbacks of Spec are not followed here
    /\ completeCalls = 0 /\ errorCalls = 0 /\ delivered = <<>>
    /\ permits = width /\ tasks = <<>>
    /\ runPc = "none" /\ total = 0 /\ results = <<>> /\ errors = <<>>
    /\ failedSegments = <<>>
    /\ onProgress = [calls |-> 0, completed |-> 0, total |-> 0]
    /\ segPc = <<>> /\ subRetry = <<>> /\ attempt = <<>> /\ netCalls = <<>>
    /\ submissions = <<>> /\ gotAuth = <<>> /\ lateStarts = {}
    /\ sampleRate = 1 /\ bufLength = 0 /\ segmentDuration = 1 /\ overlap = 0
    /\ currentPosition = 0 /\ segmentIndex = 0 /\ segments = <<>>
    /\ splitPc = "done"
    /\ lastRequestTime = 0 /\ now = 0
    /\ taskPc = <<>> /\ wakeAt = <<>> /\ stampedAt = <<>>
    /\ fragments = <<>> /\ transcript = <<>> /\ mergePc = "none"
    /\ sortedFirst = FALSE
    /\ uploadError = "null" /\ selectedFile = NoFile /\ pageSelectedFile = NoFile
    /\ onFileSelectCalls = 0 /\ offeredFile = NoFile /\ offeredVia = "none"
    /\ frames = <<>> /\ callPc = "none" /\ fetches = 0
    /\ response = NoResponse /\ random = 0 /\ waitTime = 0

\* The start button, shown while stage is idle: startTranscription up to
\* await splitAudioFile. Nothing else is tested: not whether an earlier run
\* has ended.
RunStarts(r) ==
    /\ stage = "idle"
    /\ runs[r].pc = "none"
    /\ \A q \in Runs : q < r => runs[q].pc # "none"
    /\ runs' = [runs EXCEPT ![r].pc = "splitting"]
    /\ stage' = "splitting"
    /\ aborted' = FALSE
    /\ UNCHANGED <<completeCalls, errorCalls, delivered>>
    /\ UNCHANGED semVars
    /\ UNCHANGED notRunsVars

\* The stop button: abort() on the controller of the latest run, whose signal
\* nothing reads, and stage idle. No run is changed by it.
RunsStop ==
    /\ stage \in {"splitting", "transcribing"}
    /\ aborted' = TRUE
    /\ stage' = "idle"
    /\ UNCHANGED runs
    /\ UNCHANGED <<completeCalls, errorCalls, delivered>>
    /\ UNCHANGED semVars
    /\ UNCHANGED notRunsVars

\* splitAudioFile of run r rejected or returned no segment: the catch.
RunSplitFails(r) ==
    /\ runs[r].pc = "splitting"
    /\ runs' = [runs EXCEPT ![r].pc = "finished"]
    /\ stage' = "error"
    /\ UNCHANGED <<aborted, completeCalls, errorCalls, delivered>>
    /\ UNCHANGED semVars
    /\ UNCHANGED notRunsVars

\* splitAudioFile of run r returned n segments: stage transcribing, and
\* transcribeMultipleSegments makes its own new Semaphore(concurrency) and
\* submits every segment to it.
RunSplitSucceeds(r, n) ==
    /\ runs[r].pc = "splitting"
    /\ n >= 1
    /\ LET st == SubmitAll([k \in 1..n |-> [index |-> k, retryCount |-> 0]],
                           [permits |-> width, tasks |-> <<>>,
                            pc |-> [i \in Segs |-> "none"],
                            sub |-> [i \in Segs |-> 0],
                            count |-> [i \in Segs |-> 0]])
       IN runs' = [runs EXCEPT ![r] =
                      [pc |-> "transcribing", permits |-> st.permits,
                       tasks |-> st.tasks, segPc |-> st.pc]]
    /\ stage' = "transcribing"
    /\ UNCHANGED <<aborted, completeCalls, errorCalls, delivered>>
    /\ UNCHANGED semVars
    /\ UNCHANGED notRunsVars

\* The request of segment i of run r is answered (2xx or 401): the submission
\* settles and release() of the run's Semaphore starts the next queued one.
RunSegmentSettles(r, i, kind) ==
    /\ runs[r].pc = "transcribing"
    /\ runs[r].segPc[i] = "gate"
    /\ kind \in {"ok", "auth"}
    /\ LET a == ReleaseSlot(runs[r].permits, runs[r].tasks)
           pc1 == [runs[r].segPc EXCEPT ![i] =
                      IF CallOutcome(kind, 0) = "return" THEN "resolved"
                      ELSE "rejected"]
           pc2 == IF a.started = <<>> THEN pc1
                  ELSE [pc1 EXCEPT ![Head(a.started)] = "gate"]
       IN runs' = [runs EXCEPT ![r] =
                      [pc |-> "transcribing", permits |-> a.permits,
                       tasks |-> a.tasks, segPc |-> pc2]]
    /\ UNCHANGED uiVars
    /\ UNCHANGED semVars
    /\ UNCHANGED notRunsVars

\* Every submission of run r has settled: transcribeMultipleSegments returns
\* and the run sets stage merging, merges, sets stage completed.
RunReturns(r) ==
    /\ runs[r].pc = "transcribing"
    /\ \A i \in Segs : runs[r].segPc[i] \in {"none", "resolved", "rejected"}
    /\ runs' = [runs EXCEPT ![r].pc = "finished"]
    /\ stage' = "completed"
    /\ UNCHANGED <<aborted, completeCalls, errorCalls, delivered>>
    /\ UNCHANGED semVars
    /\ UNCHANGED notRunsVars

\* The buttons shown while stage is completed or error.
RunsReset ==
    /\ stage \in {"completed", "error"}
    /\ stage' = "idle"
    /\ UNCHANGED runs
    /\ UNCHANGED <<aborted, completeCalls, errorCalls, delivered>>
    /\ UNCHANGED semVars
    /\ UNCHANGED notRunsVars

RunsNext ==
    \/ \E r \in Runs : RunStarts(r)
    \/ RunsStop
    \/ \E r \in Runs : RunSplitFails(r)
    \/ \E r \in Runs, n \in 1..MaxSegs : RunSplitSucceeds(r, n)
    \/ \E r \in Runs, i \in Segs : RunSegmentSettles(r, i, "ok")
    \/ \E r \in Runs, i \in Segs : RunSegmentSettles(r, i, "auth")
    \/ \E r \in Runs : RunReturns(r)
    \/ RunsReset

RunsSpec == RunsInit /\ [][RunsNext]_vars

\* the runs that have started and not ended
ActiveRuns == {r \in Runs : runs[r].pc \in {"splitting", "transcribing"}}

\* C37: at most one run of the component is active, and the submissions
\* admitted at one time, over all runs, are at most the width.
C37_OneRunAtATime ==
    /\ Cardinality(ActiveRuns) <= 1
    /\ Cardinality({x \in Runs \X Segs : x[2] \in RunAdmitted(x[1])}) <= width

\* C37 (what the code does): a run was stopped while its submissions were in
\* flight and the next run was started: both are transcribing, each with its
\* own Semaphore full, twice the width of requests in flight.
C37_CodeWitness ==
    /\ runs[1].pc = "transcribing" /\ runs[2].pc = "transcribing"
    /\ Cardinality(RunAdmitted(1)) = width
    /\ Cardinality(RunAdmitted(2)) = width
    /\ runs[1].permits = 0 /\ runs[2].permits = 0

====
